---- MODULE Spec2Model ----
(***************************************************************************)
(* A model of the AI-Vocal-Tool comping engine: the scorer (scoring.py),   *)
(* the segmenter (segmentation.py), the comp-map builder                   *)
(* (extract_features.py), the stitcher (stitch_from_compmap.py) and the    *)
(* pairwise ranker scripts (build_pairs.py, train_ranker_sklearn.py).      *)
(*                                                                         *)
(* Numbers.  The program computes in IEEE floating point; the model        *)
(* computes in exact integer arithmetic on fixed grids:                    *)
(*   - a sub-score is held in units of 1/Scale, a weighted score in units  *)
(*     of 1/AccScale and a blended score in units of 1/FinalScale, so the  *)
(*     weighted sums are exact;                                            *)
(*   - the 1e-9 guard in linmap's denominator is below that resolution;    *)
(*   - non-finite and missing values are kept as tagged values so that     *)
(*     the guards of _safe are modelled, not assumed.                      *)
(***************************************************************************)
EXTENDS Integers, Sequences, FiniteSets, TLC

VARIABLES
    \* ---- scorer (scoring.py, called from extract_features.py) ----
    row,            \* the feature row: raw measurements and emotion features
    alpha_pct,      \* accuracy weight in percent, as passed to the run
    nblk,           \* n = norm_block(row)
    acc_score,      \* row["acc_score"]
    emo_score,      \* row["emo_score"]
    final_score,    \* row["final_score"]
    sc_pc,          \* position of the scorer: "idle", "raw", "scored"
    \* ---- segmenter (segmentation.py: segment_phrase_reference) ----
    dur,            \* len(y) / sr, in ms
    valley_times,   \* the valleys _find_rms_valleys returned, ascending, in ms
    bpm,            \* tempo; 0 stands for None or a non-positive tempo
    min_seg_dur,    \* in ms
    max_seg_dur,    \* in ms
    boundaries,     \* the list of cut times, in ms
    last,           \* the last boundary placed
    segments,       \* the returned list of <<start, end>>
    sg_pc,          \* "idle", "call", "walk", "close", "done"
    \* ---- comp-map builder (extract_features.py: run_feature_extraction) ----
    takes,          \* the takes loaded in pass 1: [take_id, dur], in wav order
    ref_segments,   \* segments: the reference take's segmentation
    seg_score,      \* the blended score pass 2 computes for (take, segment)
    diversity_delta,
    top_k,
    seg_rows,       \* the per-(take, segment) rows, then df_seg
    segments_summary, \* the comp map's "segments" list
    cm_i,           \* position of the loop over segment indexes
    cm_pc,          \* "idle", "pass2", "build", "written", "error"
    \* ---- stitcher (stitch_from_compmap.py: stitch_from_compmap) ----
    st_segments,    \* compmap["segments"]: [index, start_s, end_s, winner]
    wav_files,      \* take id -> the .wav on disk: [rate, dur]
    target_sr,      \* the rate load_wav is asked for, in Hz
    audio,          \* take id -> waveform, as _load_winner_audio returns it
    sr,             \* the sample rate load_wav returned, in Hz
    fade_fraction,  \* in percent
    target_samples,
    out_wave,       \* sample index -> value, a fraction [n, d]
    st_i,           \* position of the running loop (idx, then b)
    cf_log,         \* what the crossfade pass computed at each boundary
    written,        \* the samples handed to sf.write
    st_error,       \* the error raised, "" when none
    st_pc,          \* "idle", "open", "load", "hard", "fade", "done", "error"
    \* ---- ranker scripts (build_pairs.py, train_ranker_sklearn.py) ----
    features_df,    \* the rows of features.csv
    rk_delta,       \* --delta, in 1/100
    pairs,          \* the rows of pairs.csv
    X_train,        \* X as handed to clf.fit
    y_train,        \* y as handed to clf.fit
    flipped,
    model_file,     \* has the model been saved
    rk_pc,          \* "idle", "features", "paired", "trained", "error"
    \* ---- one run of run_feature_extraction (extract_features.py) ----
    phrase_dir,     \* does the phrase directory exist
    rn_files,       \* take name -> what its .wav holds: [dur, whole, seg]
    rn_alpha_pct,   \* the alpha_pct argument of the run
    wavs,           \* the sorted list of .wav paths, as take names
    global_rows,    \* the whole-take rows of pass 1
    rn_takes,       \* takes: the takes loaded in pass 1, [take_id, dur]
    best_idx,       \* position of the reference take in rn_takes, from 1
    rn_segments,    \* segments: the reference take's segmentation
    rn_seg_rows,    \* seg_rows: the per-(take, segment) rows of pass 2
    rn_summary,     \* segments_summary
    outputs,        \* the artifacts written so far
    rn_i,           \* position of the running loop
    rn_pc,          \* "idle", "start", "pass1", "pick", "pass2", "build",
                    \* "written", "error"
    \* ---- applying the ranker (scripts/apply_ranker.py: main) ----
    ap_df,          \* df: the rows of features.csv, then the added columns
    ap_blend,       \* --blend in percent, Missing when not given
    ap_out,         \* the rows written to scores_learned.csv
    ap_pc,          \* "idle", "start", "scored", "normed", "blended",
                    \* "written", "error"
    \* ---- pitch feature (features.py: pitch_rmse_vs_median) ----
    pf_frames,      \* the frames of the take or segment: [f0, pd]
    pf_pd_given,    \* is the periodicity track passed (pd is not None)
    pf_err,         \* the RMSE the voiced frames give, in cents
    pf_rmse,        \* what pitch_rmse_vs_median returned: row["f0_rmse_c"]
    pf_pitch,       \* the pitch sub-score norm_block derives from it
    pf_pc,          \* "idle", "frames", "measured", "normed"
    \* ---- valley de-duplication (segmentation.py: _find_rms_valleys) ----
    valley_idxs,    \* the detected valleys in frame order: [t, r], t in ms
    keep_times,
    keep_rms,
    vl_i,           \* position of the loop over valley_idxs
    vl_pc           \* "idle", "dedup", "done"

sc_vars == <<row, alpha_pct, nblk, acc_score, emo_score, final_score, sc_pc>>
sg_vars == <<dur, valley_times, bpm, min_seg_dur, max_seg_dur, boundaries,
             last, segments, sg_pc>>

cm_vars == <<takes, ref_segments, seg_score, diversity_delta, top_k, seg_rows,
             segments_summary, cm_i, cm_pc>>

st_vars == <<st_segments, wav_files, target_sr, audio, sr, fade_fraction,
             target_samples, out_wave, st_i, cf_log, written, st_error, st_pc>>

rk_vars == <<features_df, rk_delta, pairs, X_train, y_train, flipped,
             model_file, rk_pc>>

rn_vars == <<phrase_dir, rn_files, rn_alpha_pct, wavs, global_rows, rn_takes,
             best_idx, rn_segments, rn_seg_rows, rn_summary, outputs, rn_i,
             rn_pc>>

ap_vars == <<ap_df, ap_blend, ap_out, ap_pc>>

pf_vars == <<pf_frames, pf_pd_given, pf_err, pf_rmse, pf_pitch, pf_pc>>

vl_vars == <<valley_idxs, keep_times, keep_rms, vl_i, vl_pc>>

vars == <<sc_vars, sg_vars, cm_vars, st_vars, rk_vars, rn_vars, ap_vars,
          pf_vars, vl_vars>>

\* What an action of one component leaves alone: the other components.
sc_others == <<sg_vars, cm_vars, st_vars, rk_vars, rn_vars, ap_vars,
              pf_vars, vl_vars>>
sg_others == <<sc_vars, cm_vars, st_vars, rk_vars, rn_vars, ap_vars,
              pf_vars, vl_vars>>
cm_others == <<sc_vars, sg_vars, st_vars, rk_vars, rn_vars, ap_vars,
              pf_vars, vl_vars>>
st_others == <<sc_vars, sg_vars, cm_vars, rk_vars, rn_vars, ap_vars,
              pf_vars, vl_vars>>
rk_others == <<sc_vars, sg_vars, cm_vars, st_vars, rn_vars, ap_vars,
              pf_vars, vl_vars>>
rn_others == <<sc_vars, sg_vars, cm_vars, st_vars, rk_vars, ap_vars,
              pf_vars, vl_vars>>
ap_others == <<sc_vars, sg_vars, cm_vars, st_vars, rk_vars, rn_vars,
              pf_vars, vl_vars>>
pf_others == <<sc_vars, sg_vars, cm_vars, st_vars, rk_vars, rn_vars,
              ap_vars, vl_vars>>
vl_others == <<sc_vars, sg_vars, cm_vars, st_vars, rk_vars, rn_vars,
              ap_vars, pf_vars>>

---------------------------------------------------------------------------
(* Generic helpers *)

Min2(a, b) == IF a <= b THEN a ELSE b
Max2(a, b) == IF a >= b THEN a ELSE b
Abs(a) == IF a >= 0 THEN a ELSE -a

\* np.clip(x, lo, hi)
Clip(x, lo, hi) == Max2(lo, Min2(x, hi))

\* min(S), also the first element of sorted(S)
RECURSIVE SetMin(_)
SetMin(S) ==
    LET x == CHOOSE x \in S : TRUE
    IN  IF S = {x} THEN x ELSE Min2(x, SetMin(S \ {x}))

---------------------------------------------------------------------------
(* Scorer: scoring.py *)

\* Resolution of a sub-score: 1.0 is Scale.
Scale == 10 * 100
\* accuracy_score and emotion_score are sums of (weight in percent) * sub-score.
AccScale == 100 * Scale
\* final_blend multiplies by alpha in percent once more.
FinalScale == 100 * AccScale

\* A raw value: a number, or one of the values _safe replaces.
Num(v)  == [k |-> "num", v |-> v]
Missing == [k |-> "none", v |-> 0]
NaN     == [k |-> "nan", v |-> 0]
PosInf  == [k |-> "inf", v |-> 0]
NegInf  == [k |-> "ninf", v |-> 0]

\* linmap without the np.clip.
linmap_unclipped(x, a, b) == ((x - a) * Scale) \div (b - a)

\* linmap(x, a, b): (x - a) / (b - a) clipped to [0, 1].
linmap(x, a, b) == Clip(((x - a) * Scale) \div (b - a), 0, Scale)

\* _safe(v, fallback): None, NaN and +-inf give the fallback.
safe(v, fallback) == IF v.k = "num" THEN v.v ELSE fallback

\* Ranges and fallbacks of norm_block.  Cents, dB, and hundredths for the
\* de-ess ratio (0.03 .. 0.30).
PitchWorst == 300
SnrCap == 40
DeessLo == 3
DeessHi == 30

\* norm_block with a clip penalty that grows with the count.
norm_block_graded_clip(r) ==
    [ pitch_rmse |-> Scale - linmap(safe(r.f0_rmse_c, PitchWorst), 0, PitchWorst),
      snr        |-> linmap(Min2(safe(r.snr_db, 0), SnrCap), 0, SnrCap),
      deess      |-> Scale - linmap(safe(r.deess_ratio, DeessHi), DeessLo, DeessHi),
      clip_ok    |-> Max2(0, Scale - 4 * 100 * safe(r.clip_n, 0)) ]

norm_block(r) ==
    [ pitch_rmse |-> Scale - linmap(safe(r.f0_rmse_c, PitchWorst), 0, PitchWorst),
      snr        |-> linmap(Min2(safe(r.snr_db, 0), SnrCap), 0, SnrCap),
      deess      |-> Scale - linmap(safe(r.deess_ratio, DeessHi), DeessLo, DeessHi),
      clip_ok    |-> IF safe(r.clip_n, 0) = 0 THEN Scale ELSE (6 * Scale) \div 10 ]

\* Default weights, in percent.
W_pitch == 50
W_snr == 20
W_deess == 20
W_clip == 10
W_vib == 34
W_dyn == 33
W_mic == 33

accuracy_score(n) ==
    W_pitch * n.pitch_rmse + W_snr * n.snr + W_deess * n.deess + W_clip * n.clip_ok

emotion_score(r) ==
    W_vib * safe(r.vibrato_stability, 0) + W_dyn * safe(r.dyn_shape, 0)
        + W_mic * safe(r.microtiming, 0)

\* final_blend(acc, emo, alpha) with alpha = alpha_pct / 100.
final_blend(acc, emo, apct) ==
    LET a == Clip(apct, 0, 100)
    IN  a * acc + (100 - a) * emo

\* The raw measurements a feature row can carry: missing, non-finite,
\* below, inside and above the mapped range.
F0Vals    == {Missing, NaN, PosInf, Num(-60), Num(150), Num(450)}
SnrVals   == {Missing, NegInf, Num(-10), Num(20), Num(80)}
DeessVals == {Missing, NaN, Num(1), Num(15), Num(90)}
\* clip_count returns a whole number of samples, up to the length of the take.
ClipVals  == {Missing, Num(0), Num(1), Num(3), Num(48000)}
\* The emotion extractors (features.py) return a score in [0, 1] or NaN.
EmoVals   == {Missing, NaN, Num(0), Num(3 * 100), Num(Scale)}
AlphaPcts == {-20, 0, 60, 100, 150}

NoRow == [f0_rmse_c |-> Missing, snr_db |-> Missing, deess_ratio |-> Missing,
          clip_n |-> Missing, vibrato_stability |-> Missing,
          dyn_shape |-> Missing, microtiming |-> Missing]
NoBlock == [pitch_rmse |-> 0, snr |-> 0, deess |-> 0, clip_ok |-> 0]

ScIdle ==
    /\ row = NoRow /\ alpha_pct = 0 /\ nblk = NoBlock
    /\ acc_score = 0 /\ emo_score = 0 /\ final_score = 0 /\ sc_pc = "idle"

ScInit ==
    /\ row \in [f0_rmse_c : F0Vals, snr_db : SnrVals, deess_ratio : DeessVals,
                clip_n : ClipVals, vibrato_stability : EmoVals,
                dyn_shape : EmoVals, microtiming : {NaN, Num(5 * 100), Num(Scale)}]
    /\ alpha_pct \in AlphaPcts
    /\ nblk = NoBlock
    /\ acc_score = 0 /\ emo_score = 0 /\ final_score = 0
    /\ sc_pc = "raw"

\* One pass of the scoring block of run_feature_extraction on a row.
ScoreRow ==
    /\ sc_pc = "raw"
    /\ nblk' = norm_block(row)
    /\ acc_score' = accuracy_score(nblk')
    /\ emo_score' = emotion_score(row)
    /\ final_score' = final_blend(acc_score', emo_score', alpha_pct)
    /\ sc_pc' = "scored"
    /\ UNCHANGED <<row, alpha_pct>>
    /\ UNCHANGED sc_others

ScNext == ScoreRow

---------------------------------------------------------------------------
(* Segmenter: segmentation.py.  Times are in milliseconds. *)

\* s[-1]
Last(s) == s[Len(s)]

\* A fallback that returns no segment at all.
one_phrase_dropped(d) == <<>>

\* one_phrase(y, sr)
one_phrase(d) == << <<0, d>> >>

\* Lines 137-142: about two beats, clamped; 1.2 s when the tempo is unknown.
TargetCap == 4000
TargetFallback == 1200
target_seg_dur(b, mn) ==
    IF b > 0 THEN Max2(mn, Min2(TargetCap, (2 * 60000) \div b))
    ELSE TargetFallback

\* Lines 157-163: the window the next cut may fall in.
window_start(l, mn) == l + mn
window_end(l, mx, d, mn) == Min2(l + mx, d - mn)

\* Lines 168, 174: the valleys inside the window, in ascending order.
cand(vt, ws, we) == SelectSeq(vt, LAMBDA t : t >= ws /\ t <= we)

\* An argmin that returns the last index of the minimum.
argmin_abs_last(c, desired) ==
    CHOOSE i \in 1..Len(c) :
        /\ \A j \in 1..Len(c) : Abs(c[i] - desired) <= Abs(c[j] - desired)
        /\ \A j \in (i + 1)..Len(c) : Abs(c[j] - desired) > Abs(c[i] - desired)

\* Line 178: np.argmin(np.abs(cand - desired)), the first index of the minimum.
argmin_abs(c, desired) ==
    CHOOSE i \in 1..Len(c) :
        /\ \A j \in 1..Len(c) : Abs(c[i] - desired) <= Abs(c[j] - desired)
        /\ \A j \in 1..(i - 1) : Abs(c[j] - desired) > Abs(c[i] - desired)

\* Line 190: a tail shorter than this is not closed with the phrase end.
TailMin == 200
close_boundaries(bs, d) == IF d - Last(bs) >= TailMin THEN Append(bs, d) ELSE bs

\* Lines 194-205: pair the boundaries up and merge a short piece into the
\* previous one.  merge_from(bs, i, merged) handles pieces i, i+1, ...
RECURSIVE merge_from(_, _, _, _)
merge_from(bs, i, merged, mn) ==
    IF i >= Len(bs) THEN merged
    ELSE LET s == bs[i]
             e == bs[i + 1]
         IN  IF merged = <<>> THEN merge_from(bs, i + 1, << <<s, e>> >>, mn)
             ELSE IF e - s < mn
                  THEN merge_from(bs, i + 1,
                         [merged EXCEPT ![Len(merged)] = <<Last(merged)[1], e>>], mn)
                  ELSE merge_from(bs, i + 1, Append(merged, <<s, e>>), mn)

\* Line 207: pieces of at most 1 ms are dropped.
TinySeg == 1
keep_segments(merged) == SelectSeq(merged, LAMBDA p : p[2] - p[1] > TinySeg)

\* Lines 189-212.
finish_segments(bs, d, mn) ==
    LET kept == keep_segments(merge_from(close_boundaries(bs, d), 1, <<>>, mn))
    IN  IF kept = <<>> THEN one_phrase(d) ELSE kept

\* Inputs.  Valley sets are what _find_rms_valleys can return: ascending,
\* at least min_spacing apart, not within 30 ms of either end.
MaxValleys == 3
ValleySpacing == 180
EdgeGuard == 30
DurVals == {400, 800, 1000, 1500, 2400}
ValleyGrid == {100, 300, 450, 600, 850, 900, 1000, 1400, 1950, 2100}
BpmVals == {0, 60, 120}
MinSegVals == {450, 100}
MaxSegVals == {5000, 1000}

RECURSIVE SortedSeq(_)
SortedSeq(S) ==
    IF S = {} THEN <<>>
    ELSE LET m == CHOOSE x \in S : \A z \in S : x <= z
         IN  <<m>> \o SortedSeq(S \ {m})

ValleySets(d) ==
    { V \in SUBSET { t \in ValleyGrid : t >= EdgeGuard /\ t <= d - EdgeGuard } :
        /\ Cardinality(V) <= MaxValleys
        /\ \A a, b \in V : a < b => b - a >= ValleySpacing }

SgIdle ==
    /\ dur = 0 /\ valley_times = <<>> /\ bpm = 0
    /\ min_seg_dur = 0 /\ max_seg_dur = 0
    /\ boundaries = <<>> /\ last = 0 /\ segments = <<>> /\ sg_pc = "idle"

SgInit ==
    /\ dur \in DurVals
    /\ \E V \in ValleySets(dur) : valley_times = SortedSeq(V)
    /\ bpm \in BpmVals
    /\ min_seg_dur \in MinSegVals
    /\ max_seg_dur \in MaxSegVals
    /\ boundaries = <<>> /\ last = 0 /\ segments = <<>>
    /\ sg_pc = "call"

sg_inputs == <<dur, valley_times, bpm, min_seg_dur, max_seg_dur>>

\* Lines 126-150: the early returns, else the walk starts at 0.
SegEnter ==
    /\ sg_pc = "call"
    /\ IF dur <= 2 * min_seg_dur \/ Len(valley_times) = 0
       THEN /\ segments' = one_phrase(dur)
            /\ sg_pc' = "done"
            /\ UNCHANGED <<boundaries, last>>
       ELSE /\ boundaries' = <<0>>
            /\ last' = 0
            /\ sg_pc' = "walk"
            /\ UNCHANGED segments
    /\ UNCHANGED sg_inputs
    /\ UNCHANGED sg_others

\* A loop that takes its candidates from the whole phrase and has no
\* progress check.
SegStep_any_valley ==
    /\ sg_pc = "walk"
    /\ LET ws == window_start(last, min_seg_dur)
           we == window_end(last, max_seg_dur, dur, min_seg_dur)
           c  == cand(valley_times, 0, we)
           btime == c[argmin_abs(c, last + target_seg_dur(bpm, min_seg_dur))]
       IN  IF \/ dur - ws < min_seg_dur
              \/ we <= ws
              \/ c = <<>>
           THEN /\ sg_pc' = "close"
                /\ UNCHANGED <<boundaries, last>>
           ELSE /\ boundaries' = Append(boundaries, btime)
                /\ last' = btime
                /\ UNCHANGED sg_pc
    /\ UNCHANGED <<segments, sg_inputs>>
    /\ UNCHANGED sg_others

\* Lines 155-187: one iteration of the while loop.
SegStep ==
    /\ sg_pc = "walk"
    /\ LET ws == window_start(last, min_seg_dur)
           we == window_end(last, max_seg_dur, dur, min_seg_dur)
           c  == cand(valley_times, ws, we)
           btime == c[argmin_abs(c, last + target_seg_dur(bpm, min_seg_dur))]
       IN  IF \/ dur - ws < min_seg_dur
              \/ we <= ws
              \/ c = <<>>
              \/ btime - last < min_seg_dur
           THEN /\ sg_pc' = "close"
                /\ UNCHANGED <<boundaries, last>>
           ELSE /\ boundaries' = Append(boundaries, btime)
                /\ last' = btime
                /\ UNCHANGED sg_pc
    /\ UNCHANGED <<segments, sg_inputs>>
    /\ UNCHANGED sg_others

\* Lines 189-212: close at the phrase end, merge, filter, return.
SegClose ==
    /\ sg_pc = "close"
    /\ segments' = finish_segments(boundaries, dur, min_seg_dur)
    /\ sg_pc' = "done"
    /\ UNCHANGED <<boundaries, last, sg_inputs>>
    /\ UNCHANGED sg_others

SgNext == SegEnter \/ SegStep \/ SegClose

---------------------------------------------------------------------------
(* Comp-map builder: extract_features.py, pass 2 and lines 425-518.        *)
(* Times are in ms.  A row keeps the columns the comp map is built from;   *)
(* the other score columns are copied along unchanged and are left out.    *)

RECURSIVE ConcatAll(_)
ConcatAll(ss) == IF ss = <<>> THEN <<>> ELSE Head(ss) \o ConcatAll(Tail(ss))

\* Lines 356-405 for one take: a row per segment that is not empty after the
\* clamp to the take's own duration.
rows_of_take(t, segs, score) ==
    LET row_at(k) ==
            LET s_clamp == Max2(0, Min2(segs[k][1], t.dur))
                e_clamp == Max2(0, Min2(segs[k][2], t.dur))
            IN  IF e_clamp <= s_clamp THEN <<>>
                ELSE << [take |-> t.take_id, segment_idx |-> k - 1,
                         seg_start_s |-> s_clamp, seg_end_s |-> e_clamp,
                         final_score |-> score[t.take_id][k]] >>
    IN  ConcatAll([k \in 1..Len(segs) |-> row_at(k)])

\* Lines 346-405: every take, in pass-1 order.
pass2_rows(tk, segs, score) ==
    ConcatAll([i \in 1..Len(tk) |-> rows_of_take(tk[i], segs, score)])

\* Line 449: sorted(df_seg["segment_idx"].unique())
seg_idx_list(rows) == SortedSeq({rows[i].segment_idx : i \in 1..Len(rows)})

\* Line 450: the rows of one segment.
seg_rows_of(rows, k) == SelectSeq(rows, LAMBDA r : r.segment_idx = k)

\* The sort of line 450 with ascending=True.
asc_orders(sd) ==
    LET n == Len(sd)
        perms == { p \in [1..n -> 1..n] : \A a, b \in 1..n : a # b => p[a] # p[b] }
    IN  { [i \in 1..n |-> sd[p[i]]] : p \in
            { q \in perms : \A i \in 1..(n - 1) :
                  sd[q[i]].final_score <= sd[q[i + 1]].final_score } }

\* Lines 430, 450-452: sort_values("final_score", ascending=False).  The sort
\* is not a stable one, so rows with equal scores may come in any order.
desc_orders(sd) ==
    LET n == Len(sd)
        perms == { p \in [1..n -> 1..n] : \A a, b \in 1..n : a # b => p[a] # p[b] }
    IN  { [i \in 1..n |-> sd[p[i]]] : p \in
            { q \in perms : \A i \in 1..(n - 1) :
                  sd[q[i]].final_score >= sd[q[i + 1]].final_score } }

\* The guard of line 473 without the cap on the number of candidates.
admit_uncapped(best_score, score, delta, k, n_cands) == best_score - score <= delta

\* Line 473: the guard of a candidate.
admit(best_score, score, delta, k, n_cands) ==
    best_score - score <= delta /\ n_cands < k - 1

\* Lines 469-483: walk rows 1.. of the sorted frame (row 0 is the winner).
RECURSIVE collect_candidates(_, _, _, _, _)
collect_candidates(sd, i, cands, delta, k) ==
    IF i > Len(sd) THEN cands
    ELSE IF admit(sd[1].final_score, sd[i].final_score, delta, k, Len(cands))
         THEN collect_candidates(sd, i + 1,
                  Append(cands, [take |-> sd[i].take,
                                 final_score |-> sd[i].final_score]), delta, k)
         ELSE collect_candidates(sd, i + 1, cands, delta, k)

\* An entry whose candidate walk starts at the winner's own row.
compmap_entry_with_self(seg_idx, sd, delta, k) ==
    [ index      |-> seg_idx,
      start_s    |-> sd[1].seg_start_s,
      end_s      |-> sd[1].seg_end_s,
      winner     |-> [take |-> sd[1].take, final_score |-> sd[1].final_score],
      candidates |-> collect_candidates(sd, 1, <<>>, delta, k) ]

\* Lines 456-494: the entry of one segment from its sorted rows.
compmap_entry(seg_idx, sd, delta, k) ==
    [ index      |-> seg_idx,
      start_s    |-> sd[1].seg_start_s,
      end_s      |-> sd[1].seg_end_s,
      winner     |-> [take |-> sd[1].take, final_score |-> sd[1].final_score],
      candidates |-> collect_candidates(sd, 2, <<>>, delta, k) ]

\* Inputs.
MaxTakes == 3
MaxTopK == 3
TakeDurs == {1500}
RefGrids == { << <<0, 1500>> >>, << <<0, 600>>, <<600, 1500>> >> }
ScoreVals == {50, 57, 60}
DeltaVals == {-5, 0, 7}

CmIdle ==
    /\ takes = <<>> /\ ref_segments = <<>> /\ seg_score = <<>>
    /\ diversity_delta = 0 /\ top_k = 0
    /\ seg_rows = <<>> /\ segments_summary = <<>> /\ cm_i = 0 /\ cm_pc = "idle"

\* The state after pass 1 and the segmentation of the reference take.
CmInit ==
    /\ \E n \in 1..MaxTakes :
         /\ takes \in [1..n -> [take_id : 1..n, dur : TakeDurs]]
         /\ \A i \in 1..n : takes[i].take_id = i
    /\ ref_segments \in RefGrids
    /\ seg_score \in [1..Len(takes) -> [1..Len(ref_segments) -> ScoreVals]]
    /\ diversity_delta \in DeltaVals
    /\ top_k \in 0..MaxTopK
    /\ seg_rows = <<>> /\ segments_summary = <<>> /\ cm_i = 0
    /\ cm_pc = "pass2"

cm_inputs == <<takes, ref_segments, seg_score, diversity_delta, top_k>>

\* Lines 343-433: pass 2, then the abort on an empty table.
Pass2 ==
    /\ cm_pc = "pass2"
    /\ seg_rows' = pass2_rows(takes, ref_segments, seg_score)
    /\ cm_pc' = IF seg_rows' = <<>> THEN "error" ELSE "build"
    /\ cm_i' = 1
    /\ UNCHANGED <<segments_summary, cm_inputs>>
    /\ UNCHANGED cm_others

\* Lines 449-494: one iteration of the loop over segment indexes.
BuildEntry ==
    /\ cm_pc = "build"
    /\ cm_i <= Len(seg_idx_list(seg_rows))
    /\ LET k == seg_idx_list(seg_rows)[cm_i]
       IN  \E sd \in desc_orders(seg_rows_of(seg_rows, k)) :
              segments_summary' =
                  Append(segments_summary,
                         compmap_entry(k, sd, diversity_delta, top_k))
    /\ cm_i' = cm_i + 1
    /\ UNCHANGED <<seg_rows, cm_pc, cm_inputs>>
    /\ UNCHANGED cm_others

\* Lines 496-522: the comp map is written.
WriteCompMap ==
    /\ cm_pc = "build"
    /\ cm_i > Len(seg_idx_list(seg_rows))
    /\ cm_pc' = "written"
    /\ UNCHANGED <<seg_rows, segments_summary, cm_i, cm_inputs>>
    /\ UNCHANGED cm_others

CmNext == Pass2 \/ BuildEntry \/ WriteCompMap

---------------------------------------------------------------------------
(* Stitcher: stitch_from_compmap.py.                                       *)
(* Segment times are in ms.  The crossfade pass halves a product of a      *)
(* duration and a percentage, so its times are kept in units of 1/200 ms   *)
(* (FinePerMs), where they are whole numbers.  A waveform is a function    *)
(* from the sample index (from 0) to the sample; the output buffer holds   *)
(* fractions [n, d] since a crossfade weight is j / (length - 1).  The     *)
(* arithmetic is exact: the rounding of float32 products is not modelled.  *)

FinePerMs == 2 * 100
FinePerSec == 1000 * FinePerMs

\* int(round(n / d)) for d > 0: Python rounds a tie to the even neighbour.
RoundHalfEven(n, d) ==
    LET q == n \div d
        r == n - q * d
    IN  IF 2 * r < d THEN q
        ELSE IF 2 * r > d THEN q + 1
        ELSE IF q % 2 = 0 THEN q ELSE q + 1

\* int(round(t * sr)) for a time in ms, and for a time in 1/200 ms.
sample_of_ms(t, rate) == RoundHalfEven(t * rate, 1000)
sample_of_fine(t, rate) == RoundHalfEven(t * rate, FinePerSec)

RECURSIVE GCD(_, _)
GCD(a, b) == IF b = 0 THEN a ELSE GCD(b, a % b)

\* The fraction n / d (d > 0) in lowest terms.
Frac(n, d) == LET g == GCD(Abs(n), d) IN [n |-> n \div g, d |-> d \div g]
FracEq(a, b) == a.n * b.d = b.n * a.d
WaveLen(y) == Cardinality(DOMAIN y)

\* Line 176: sorted(segments, key=start_s), a stable sort.
RECURSIVE insert_by_start(_, _)
insert_by_start(sorted, e) ==
    IF sorted = <<>> THEN <<e>>
    ELSE IF Last(sorted).start_s <= e.start_s THEN Append(sorted, e)
    ELSE Append(insert_by_start(SubSeq(sorted, 1, Len(sorted) - 1), e), Last(sorted))
RECURSIVE sort_by_start(_)
sort_by_start(segs) ==
    IF segs = <<>> THEN <<>>
    ELSE insert_by_start(sort_by_start(SubSeq(segs, 1, Len(segs) - 1)), Last(segs))

segments_sorted == sort_by_start(st_segments)
num_segs == Len(segments_sorted)
seg_start_s(k) == segments_sorted[k].start_s
seg_end_s(k) == segments_sorted[k].end_s
seg_dur_s(k) == seg_end_s(k) - seg_start_s(k)
seg_take(k) == segments_sorted[k].winner

RECURSIVE SeqMax(_)
SeqMax(q) == IF Len(q) = 1 THEN q[1] ELSE Max2(q[1], SeqMax(Tail(q)))

\* Lines 185-190.
phrase_end_s == SeqMax([k \in 1..num_segs |-> seg_end_s(k)])
\* The buffer length without the clamp of line 190.
target_unclamped(segs_end, first_size, rate) == sample_of_ms(segs_end, rate)

target_of(segs_end, first_size, rate) ==
    Min2(sample_of_ms(segs_end, rate), first_size)

\* Lines 206-211 for segment k: the clamped sample range.
hard_start(k) == Max2(0, Min2(sample_of_ms(seg_start_s(k), sr), target_samples))
hard_end(k) ==
    Max2(hard_start(k),
         Min2(Min2(sample_of_ms(seg_end_s(k), sr), target_samples),
              WaveLen(audio[seg_take(k)])))

\* The copy of line 221 taken from the start of the take, as a splice would.
hard_copy_from_zero(out, y, a, b) ==
    [i \in DOMAIN out |-> IF a <= i /\ i < b THEN Frac(y[i - a], 1) ELSE out[i]]

\* Lines 221-230: out_wave[a:b] = y[a:b].
hard_copy(out, y, a, b) ==
    [i \in DOMAIN out |-> IF a <= i /\ i < b THEN Frac(y[i], 1) ELSE out[i]]

\* Lines 235-236, in ms.
MinFadeMs == 30
MaxFadeMs == 500

\* The fade length taken from the longer of the two segments.
fade_len_longer(d1, d2, ff) ==
    Min2(Min2(Max2(MinFadeMs * 100, Max2(d1, d2) * ff), MaxFadeMs * 100),
         (d1 + d2) * 100)

\* Lines 250-253: the fade length in units of 1/100 ms, for durations in ms
\* and a fraction in percent.
fade_len(d1, d2, ff) ==
    Min2(Min2(Max2(MinFadeMs * 100, Min2(d1, d2) * ff), MaxFadeMs * 100),
         (d1 + d2) * 100)

\* A crossfade whose incoming weight starts one step late.
cross_sample_late(yp, yn, j, len) ==
    Frac(yp * (len - 1 - j) + yn * Max2(j - 1, 0), len - 1)

\* Lines 299-303: sample j of a window of len samples; t = j / (len - 1).
cross_sample(yp, yn, j, len) ==
    Frac(yp * (len - 1 - j) + yn * j, len - 1)

\* Lines 239-306 for boundary b (between segments b and b + 1): what is
\* computed, and whether the window is applied.
crossfade_at(b) ==
    LET boundary_s == seg_end_s(b)
        d1 == seg_dur_s(b)
        d2 == seg_dur_s(b + 1)
        fade == fade_len(d1, d2, fade_fraction)
        start_s_cf == boundary_s * FinePerMs - fade
        end_s_cf == boundary_s * FinePerMs + fade
        s0 == Max2(0, Min2(sample_of_fine(start_s_cf, sr), target_samples))
        e0 == Max2(s0, Min2(sample_of_fine(end_s_cf, sr), target_samples))
        y_prev == audio[seg_take(b)]
        y_next == audio[seg_take(b + 1)]
        len1 == e0 - s0
        len2 == Min2(len1, Min2(Min2(e0, WaveLen(y_prev)) - s0,
                                Min2(e0, WaveLen(y_next)) - s0))
        computed == ~(Min2(d1, d2) <= 0 \/ fade_fraction <= 0 \/ fade <= 0)
    IN  [ b |-> b, computed |-> computed,
          d1 |-> d1, d2 |-> d2, boundary_s |-> boundary_s,
          fade_s |-> IF computed THEN fade ELSE 0,
          start_s_cf |-> IF computed THEN start_s_cf ELSE 0,
          end_s_cf |-> IF computed THEN end_s_cf ELSE 0,
          applied |-> computed /\ len1 > 1 /\ len2 > 1,
          start_sample_cf |-> s0,
          end_sample_cf |-> s0 + len2 ]

\* A crossfade whose two slices are taken from the start of each take.
apply_crossfade_from_zero(out, c) ==
    LET y_prev == audio[seg_take(c.b)]
        y_next == audio[seg_take(c.b + 1)]
        len == c.end_sample_cf - c.start_sample_cf
    IN  [i \in DOMAIN out |->
            IF c.start_sample_cf <= i /\ i < c.end_sample_cf
            THEN cross_sample(y_prev[i - c.start_sample_cf],
                              y_next[i - c.start_sample_cf],
                              i - c.start_sample_cf, len)
            ELSE out[i]]

\* Lines 295-306: the window of boundary b written over the buffer.
apply_crossfade(out, c) ==
    LET y_prev == audio[seg_take(c.b)]
        y_next == audio[seg_take(c.b + 1)]
        len == c.end_sample_cf - c.start_sample_cf
    IN  [i \in DOMAIN out |->
            IF c.start_sample_cf <= i /\ i < c.end_sample_cf
            THEN cross_sample(y_prev[i], y_next[i], i - c.start_sample_cf, len)
            ELSE out[i]]

\* _peak_normalize(x, -1 dBFS), then np.clip(x, -1, 1): lines 133-145, 321-324.
\* 10 ** (-1 / 20) is taken as 891 / 1000.
TargetLinear == <<891, 1000>>
FracAbs(a) == Frac(Abs(a.n), a.d)
FracLe(a, b) == a.n * b.d <= b.n * a.d
peak_of(x) ==
    LET i == CHOOSE i \in DOMAIN x : \A j \in DOMAIN x : FracLe(FracAbs(x[j]), FracAbs(x[i]))
    IN  FracAbs(x[i])
FracClip1(a) ==
    IF a.n > a.d THEN Frac(1, 1) ELSE IF a.n < -a.d THEN Frac(-1, 1) ELSE a
peak_normalize_clip(x) ==
    LET peak == peak_of(x)
    IN  IF peak.n <= 0 THEN [i \in DOMAIN x |-> FracClip1(x[i])]
        ELSE [i \in DOMAIN x |->
                FracClip1(Frac(x[i].n * TargetLinear[1] * peak.d,
                               x[i].d * TargetLinear[2] * peak.n))]

\* Inputs.  The waveforms: every take differs from every other at every
\* index, and no take repeats from one index to the next.
Wave(t, i) == IF i % 2 = 0 THEN 3 * t - (i % 3) ELSE -(3 * t - ((i + 1) % 3))
MaxStTakes == 2
SrVals == {20, 40}
FadePcts == {-10, 0, 15, 100, 250}
StTakeDurs == {1300, 1500, 2000}
StGrids == { << <<0, 2000>> >>,
             << <<0, 1000>>, <<1000, 2000>> >>,
             << <<0, 625>>, <<625, 1500>> >>,
             << <<0, 500>>, <<500, 950>>, <<950, 1500>> >> }

\* The comp map run_feature_extraction builds for a reference grid, the
\* takes' durations and a choice of winner per segment (lines 356-382,
\* 485-494): start and end are the winner's clamped times.
has_row(d, seg) == Max2(0, Min2(seg[2], d)) > Max2(0, Min2(seg[1], d))
compmap_of(grid, durs, win) ==
    [k \in 1..Len(grid) |->
        [ index   |-> k - 1,
          start_s |-> Max2(0, Min2(grid[k][1], durs[win[k]])),
          end_s   |-> Max2(0, Min2(grid[k][2], durs[win[k]])),
          winner  |-> win[k] ]]

\* load_wav with the rate of the file passed through.
load_wav_keep_rate(f, t_sr) ==
    [sr |-> f.rate, len |-> (f.dur * f.rate) \div 1000]

\* io.py lines 6-15: a file at another rate is resampled to target_sr; the
\* result is the rate returned and the number of samples.
load_wav(f, t_sr) ==
    LET rate == IF f.rate # t_sr THEN t_sr ELSE f.rate
    IN  [sr |-> rate, len |-> (f.dur * rate) \div 1000]

\* Lines 60-61: the winners' take ids.
winner_ids == {st_segments[k].winner : k \in 1..Len(st_segments)}

\* Lines 65-77: sr_ref is the rate of the first take loaded, in sorted
\* order of the ids; a take with another rate raises.
sr_ref == load_wav(wav_files[SetMin(winner_ids)], target_sr).sr
rate_mismatch == \E t \in winner_ids : load_wav(wav_files[t], target_sr).sr # sr_ref

StIdle ==
    /\ st_segments = <<>> /\ wav_files = <<>> /\ target_sr = 0
    /\ audio = <<>> /\ sr = 0 /\ fade_fraction = 0
    /\ target_samples = 0 /\ out_wave = <<>> /\ st_i = 0 /\ cf_log = <<>>
    /\ written = <<>> /\ st_error = "" /\ st_pc = "idle"

\* A comp map the builder wrote, with the winners' files at the processing
\* rate or at half of it; or a comp map without segments.
StInit ==
    /\ target_sr \in SrVals
    /\ fade_fraction \in FadePcts
    /\ \/ st_segments = <<>> /\ wav_files = <<>>
       \/ \E n \in 1..MaxStTakes, grid \in StGrids :
            \E durs \in [1..n -> StTakeDurs] :
               /\ \E t \in 1..n : durs[t] = Last(grid)[2]
               /\ \E win \in [1..Len(grid) -> 1..n] :
                    /\ \A k \in 1..Len(grid) : has_row(durs[win[k]], grid[k])
                    /\ st_segments = compmap_of(grid, durs, win)
                    /\ \E rates \in [{win[k] : k \in 1..Len(grid)} ->
                                        {target_sr, target_sr \div 2}] :
                          wav_files = [t \in DOMAIN rates |->
                                          [rate |-> rates[t], dur |-> durs[t]]]
    /\ audio = <<>> /\ sr = 0
    /\ target_samples = 0 /\ out_wave = <<>> /\ st_i = 0 /\ cf_log = <<>>
    /\ written = <<>> /\ st_error = ""
    /\ st_pc = "open"

st_inputs == <<st_segments, wav_files, target_sr, fade_fraction>>

\* Lines 166-174 and _load_winner_audio: the comp map is read and the
\* winners' audio is loaded.
StLoadAudio ==
    /\ st_pc = "open"
    /\ IF st_segments = <<>>
       THEN /\ st_pc' = "error" /\ st_error' = "no segments"
            /\ UNCHANGED <<audio, sr>>
       ELSE IF rate_mismatch
       THEN /\ st_pc' = "error" /\ st_error' = "sample rate mismatch"
            /\ UNCHANGED <<audio, sr>>
       ELSE /\ sr' = sr_ref
            /\ audio' = [t \in winner_ids |->
                  [i \in 0..(load_wav(wav_files[t], target_sr).len - 1) |->
                      Wave(t, i)]]
            /\ st_pc' = "load"
            /\ UNCHANGED st_error
    /\ UNCHANGED <<target_samples, out_wave, st_i, cf_log, written, st_inputs>>
    /\ UNCHANGED st_others

\* Lines 176-200: the buffer is allocated.
StAllocate ==
    /\ st_pc = "load"
    /\ target_samples' = target_of(phrase_end_s, WaveLen(audio[seg_take(1)]), sr)
    /\ out_wave' = [i \in 0..(target_samples' - 1) |-> Frac(0, 1)]
    /\ st_i' = 1
    /\ st_pc' = "hard"
    /\ UNCHANGED <<audio, sr, cf_log, written, st_error, st_inputs>>
    /\ UNCHANGED st_others

\* A hard-composite loop that aborts on an empty region.
HardSegment_abort_on_empty ==
    /\ st_pc = "hard"
    /\ st_i <= num_segs
    /\ IF hard_end(st_i) <= hard_start(st_i)
       THEN /\ st_pc' = "error" /\ st_error' = "empty segment"
            /\ UNCHANGED <<out_wave, st_i>>
       ELSE /\ out_wave' = hard_copy(out_wave, audio[seg_take(st_i)],
                                     hard_start(st_i), hard_end(st_i))
            /\ st_i' = st_i + 1
            /\ UNCHANGED <<st_pc, st_error>>
    /\ UNCHANGED <<target_samples, cf_log, written, audio, sr, st_inputs>>
    /\ UNCHANGED st_others

\* Lines 202-230: one iteration of the hard-composite loop.
HardSegment ==
    /\ st_pc = "hard"
    /\ st_i <= num_segs
    /\ out_wave' = IF hard_end(st_i) <= hard_start(st_i) THEN out_wave
                   ELSE hard_copy(out_wave, audio[seg_take(st_i)],
                                  hard_start(st_i), hard_end(st_i))
    /\ st_i' = st_i + 1
    /\ UNCHANGED <<target_samples, cf_log, written, st_pc, audio, sr, st_error, st_inputs>>
    /\ UNCHANGED st_others

\* Line 238: the crossfade loop starts.
HardDone ==
    /\ st_pc = "hard"
    /\ st_i > num_segs
    /\ st_i' = 1
    /\ st_pc' = "fade"
    /\ UNCHANGED <<target_samples, out_wave, cf_log, written, audio, sr, st_error, st_inputs>>
    /\ UNCHANGED st_others

\* Lines 238-315: one iteration of the crossfade loop.
CrossfadeBoundary ==
    /\ st_pc = "fade"
    /\ st_i <= num_segs - 1
    /\ LET c == crossfade_at(st_i)
       IN  /\ cf_log' = Append(cf_log, c)
           /\ out_wave' = IF c.applied THEN apply_crossfade(out_wave, c) ELSE out_wave
    /\ st_i' = st_i + 1
    /\ UNCHANGED <<target_samples, written, st_pc, audio, sr, st_error, st_inputs>>
    /\ UNCHANGED st_others

\* Lines 317-330: normalise, clip and write, or abort on an empty buffer.
StFinish ==
    /\ st_pc = "fade"
    /\ st_i > num_segs - 1
    /\ IF WaveLen(out_wave) = 0
       THEN st_pc' = "error" /\ st_error' = "empty output" /\ UNCHANGED written
       ELSE /\ st_pc' = "done" /\ written' = peak_normalize_clip(out_wave)
            /\ UNCHANGED st_error
    /\ UNCHANGED <<target_samples, out_wave, st_i, cf_log, audio, sr, st_inputs>>
    /\ UNCHANGED st_others

StNext == StLoadAudio \/ StAllocate \/ HardSegment \/ HardDone \/ CrossfadeBoundary \/ StFinish

---------------------------------------------------------------------------
(* Ranker scripts: build_pairs.py and train_ranker_sklearn.py.             *)
(* acc_score and --delta are in 1/100; the six features are whole numbers  *)
(* in their own units.  A phrase is named by its rank in the sorted order  *)
(* of the phrase names, the order groupby visits the groups in.  pairs.csv *)
(* is written and read back with its values unchanged, so the trainer is   *)
(* given the rows the builder made.                                       *)

\* train_ranker_sklearn.py lines 10-17.
FEATURES == << <<"f0_rmse_c", -1>>, <<"snr_db", 1>>, <<"deess_ratio", -1>>,
               <<"clip_n", -1>>, <<"voiced_ratio", 1>>, <<"mean_periodicity", 1>> >>

\* The delta vector with the sign applied to take A's value only.
row_to_vec_sign_a(r) ==
    [k \in 1..Len(FEATURES) |->
        FEATURES[k][2] * r.a[FEATURES[k][1]] - r.b[FEATURES[k][1]]]

\* Lines 19-26: sgn * (a - b) per feature.
row_to_vec(r) ==
    [k \in 1..Len(FEATURES) |->
        FEATURES[k][2] * (r.a[FEATURES[k][1]] - r.b[FEATURES[k][1]])]

NegVec(v) == [k \in 1..Len(v) |-> -v[k]]

\* build_pairs.py line 26 with a strict comparison.
is_auto_strict(d, delta) == IF d > delta THEN 1 ELSE 0

\* build_pairs.py lines 26 and 32: int(d >= delta).
is_auto(d, delta) == IF d >= delta THEN 1 ELSE 0

\* A label that gives a tie to the first take.
label_of_ties_first(accA, accB) == IF accA >= accB THEN 1 ELSE 0

\* Line 27.
label_of(accA, accB) == IF accA > accB THEN 1 ELSE 0

feature_cols(t) ==
    [f \in {FEATURES[k][1] : k \in 1..Len(FEATURES)} |-> t[f]]

\* Lines 24-39: the row for takes a and b of one phrase.
pair_row(phrase, a, b, delta) ==
    [ phrase  |-> phrase,
      take_a  |-> a.take, take_b |-> b.take,
      label   |-> label_of(a.acc_score, b.acc_score),
      is_auto |-> is_auto(Abs(a.acc_score - b.acc_score), delta),
      delta   |-> Abs(a.acc_score - b.acc_score),
      a       |-> feature_cols(a),
      b       |-> feature_cols(b) ]

\* itertools.combinations(takes, 2): positions i < j, in lexicographic order.
RECURSIVE combinations2(_, _, _)
combinations2(n, i, j) ==
    IF i >= n THEN <<>>
    ELSE IF j > n THEN combinations2(n, i + 1, i + 2)
    ELSE <<(<<i, j>>)>> \o combinations2(n, i, j + 1)

\* Lines 19-39 for one group.
group_pairs(phrase, df, delta) ==
    LET g == SelectSeq(df, LAMBDA r : r.phrase = phrase)
        ij == combinations2(Len(g), 1, 2)
    IN  IF Len(g) < 2 THEN <<>>
        ELSE [k \in 1..Len(ij) |->
                 pair_row(phrase, g[ij[k][1]], g[ij[k][2]], delta)]

Phrases == {1, 2}

\* Lines 18-40: the groups in sorted phrase order.
build_pairs(df, delta) ==
    ConcatAll([p \in 1..Cardinality(Phrases) |-> group_pairs(p, df, delta)])

CountOf(lbls, c) == Cardinality({k \in 1..Len(lbls) : lbls[k] = c})

\* train_ranker_sklearn.py lines 43-44: np.unique, then the test.
needs_flip(lbls) ==
    LET n0 == CountOf(lbls, 0)
        n1 == CountOf(lbls, 1)
    IN  \/ n0 = 0 \/ n1 = 0
        \/ 5 * Min2(n0, n1) < Max2(n0, n1)

\* The augmentation with the labels repeated instead of complemented.
flip_labels_same(lbls) == lbls \o lbls

\* Line 46: np.concatenate([y, 1 - y]).
flip_labels(lbls) == lbls \o [k \in 1..Len(lbls) |-> 1 - lbls[k]]

\* Line 45: np.vstack([X, -X]).
flip_rows(X0) == X0 \o [k \in 1..Len(X0) |-> NegVec(X0[k])]

\* Inputs: the takes a features.csv row can describe.
TakePool ==
    { [acc_score |-> 50, f0_rmse_c |-> 80, snr_db |-> 20, deess_ratio |-> 10,
       clip_n |-> 3, voiced_ratio |-> 70, mean_periodicity |-> 60],
      [acc_score |-> 55, f0_rmse_c |-> 40, snr_db |-> 25, deess_ratio |-> 10,
       clip_n |-> 0, voiced_ratio |-> 80, mean_periodicity |-> 75],
      [acc_score |-> 60, f0_rmse_c |-> 25, snr_db |-> 30, deess_ratio |-> 5,
       clip_n |-> 0, voiced_ratio |-> 90, mean_periodicity |-> 85] }
MaxRows == 5
RkDeltas == {5, 8}

feature_row(i, phrase, t) ==
    [ phrase |-> phrase, take |-> i, acc_score |-> t.acc_score,
      f0_rmse_c |-> t.f0_rmse_c, snr_db |-> t.snr_db,
      deess_ratio |-> t.deess_ratio, clip_n |-> t.clip_n,
      voiced_ratio |-> t.voiced_ratio, mean_periodicity |-> t.mean_periodicity ]

RkIdle ==
    /\ features_df = <<>> /\ rk_delta = 0 /\ pairs = <<>>
    /\ X_train = <<>> /\ y_train = <<>> /\ flipped = FALSE
    /\ model_file = FALSE /\ rk_pc = "idle"

RkInit ==
    /\ rk_delta \in RkDeltas
    /\ \E n \in 1..MaxRows :
         \E ph \in [1..n -> Phrases], tk \in [1..n -> TakePool] :
            features_df = [i \in 1..n |-> feature_row(i, ph[i], tk[i])]
    /\ pairs = <<>> /\ X_train = <<>> /\ y_train = <<>> /\ flipped = FALSE
    /\ model_file = FALSE
    /\ rk_pc = "features"

\* build_pairs.py main.
BuildPairs ==
    /\ rk_pc = "features"
    /\ pairs' = build_pairs(features_df, rk_delta)
    /\ rk_pc' = "paired"
    /\ UNCHANGED <<features_df, rk_delta, X_train, y_train, flipped, model_file>>
    /\ UNCHANGED rk_others

\* train_ranker_sklearn.py main: the design matrix, clf.fit(X, y), dump.
Train ==
    /\ rk_pc = "paired"
    /\ IF pairs = <<>>
       THEN /\ rk_pc' = "error"
            /\ UNCHANGED <<X_train, y_train, flipped, model_file>>
       ELSE LET X0 == [k \in 1..Len(pairs) |-> row_to_vec(pairs[k])]
                y0 == [k \in 1..Len(pairs) |-> pairs[k].label]
            IN  /\ flipped' = needs_flip(y0)
                /\ X_train' = IF needs_flip(y0) THEN flip_rows(X0) ELSE X0
                /\ y_train' = IF needs_flip(y0) THEN flip_labels(y0) ELSE y0
                /\ model_file' = TRUE
                /\ rk_pc' = "trained"
    /\ UNCHANGED <<features_df, rk_delta, pairs>>
    /\ UNCHANGED rk_others

RkNext == BuildPairs \/ Train

---------------------------------------------------------------------------
(* One run of run_feature_extraction, take by take.                        *)
(* A take is named by the characters of its file name without ".wav", as   *)
(* a sequence of character codes, so that the order of the sorted path     *)
(* list is computed, not assumed.  The feature extractors are inputs: a    *)
(* file gives a duration in ms and, for the whole take and for each        *)
(* segment, an accuracy and an emotion score in 1/100.  A blended score    *)
(* is in 1/10000.                                                          *)

\* s < t for two strings, character by character.
RECURSIVE LexLess(_, _)
LexLess(a, b) ==
    IF b = <<>> THEN FALSE
    ELSE IF a = <<>> THEN TRUE
    ELSE IF Head(a) # Head(b) THEN Head(a) < Head(b)
    ELSE LexLess(Tail(a), Tail(b))

\* ".wav"
DotWav == <<46, 119, 97, 118>>
wav_path(name) == name \o DotWav

\* Lines 229-235: sorted(...) of the paths; all are in one directory.
RECURSIVE sorted_wavs(_)
sorted_wavs(names) ==
    IF names = {} THEN <<>>
    ELSE LET first == CHOOSE x \in names :
                         \A z \in names \ {x} : LexLess(wav_path(x), wav_path(z))
         IN  <<first>> \o sorted_wavs(names \ {first})

\* A pass-1 row blended with a fixed accuracy weight of one half.
whole_row_fixed_alpha(name, f, apct) ==
    [ take |-> name, acc_score |-> f.whole.acc, emo_score |-> f.whole.emo,
      alpha |-> 50, final_score |-> final_blend(f.whole.acc, f.whole.emo, 50) ]

\* Lines 271-297: the whole-take row of pass 1.
whole_row(name, f, apct) ==
    [ take |-> name, acc_score |-> f.whole.acc, emo_score |-> f.whole.emo,
      alpha |-> apct, final_score |-> final_blend(f.whole.acc, f.whole.emo, apct) ]

\* np.argmax with the last of the largest values.
argmax_last(rows) ==
    CHOOSE i \in 1..Len(rows) :
        /\ \A j \in 1..Len(rows) : rows[j].final_score <= rows[i].final_score
        /\ \A j \in (i + 1)..Len(rows) : rows[j].final_score < rows[i].final_score

\* Line 330: np.argmax, the first of the largest values.
argmax_first(rows) ==
    CHOOSE i \in 1..Len(rows) :
        /\ \A j \in 1..Len(rows) : rows[j].final_score <= rows[i].final_score
        /\ \A j \in 1..(i - 1) : rows[j].final_score < rows[i].final_score

\* A segmentation without segments.
RunGrids_empty(d) == { <<>> }

\* Line 340: what segment_phrase_reference(ref_y, ref_sr, bpm) can return
\* for a take of d ms with its default durations: the whole take when
\* d <= 2 * 450 ms, else the whole take or a cut at a valley.
RunGrids(d) ==
    IF d <= 2 * 450 THEN { << <<0, d>> >> }
    ELSE { << <<0, d>> >>, << <<0, 600>>, <<600, d>> >> }

\* Lines 356-405 for one take: a row per segment that is not empty after
\* the clamp to the take's own duration.
run_rows_of_take(t, f, segs, apct) ==
    LET row_at(k) ==
            LET s_clamp == Max2(0, Min2(segs[k][1], t.dur))
                e_clamp == Max2(0, Min2(segs[k][2], t.dur))
            IN  IF e_clamp <= s_clamp THEN <<>>
                ELSE << [ take |-> t.take_id, segment_idx |-> k - 1,
                          seg_start_s |-> s_clamp, seg_end_s |-> e_clamp,
                          acc_score |-> f.seg[k].acc, emo_score |-> f.seg[k].emo,
                          alpha |-> apct,
                          final_score |->
                              final_blend(f.seg[k].acc, f.seg[k].emo, apct) ] >>
    IN  ConcatAll([k \in 1..Len(segs) |-> row_at(k)])

\* Lines 212-213: the defaults of diversity_delta (0.07) and top_k.
RunDelta == 7 * 100
RunTopK == 3

\* Inputs.  The names "a", "a-b" and "b".
NamePool == { <<97>>, <<97, 45, 98>>, <<98>> }
MaxWavs == 2
RunSegIdx == {1, 2}
RunDurs == {500, 1500}
AccEmo == { [acc |-> 50, emo |-> 70], [acc |-> 60, emo |-> 50] }
RunAlphas == {0, 60, 150}
RunFile == [dur : RunDurs, whole : AccEmo, seg : [RunSegIdx -> AccEmo]]

RnIdle ==
    /\ phrase_dir = FALSE /\ rn_files = <<>> /\ rn_alpha_pct = 0
    /\ wavs = <<>> /\ global_rows = <<>> /\ rn_takes = <<>> /\ best_idx = 0
    /\ rn_segments = <<>> /\ rn_seg_rows = <<>> /\ rn_summary = <<>>
    /\ outputs = {} /\ rn_i = 0 /\ rn_pc = "idle"

RnInit ==
    /\ phrase_dir \in BOOLEAN
    /\ \E names \in SUBSET NamePool :
         /\ Cardinality(names) <= MaxWavs
         /\ ~phrase_dir => names = {}
         /\ rn_files \in [names -> RunFile]
    /\ rn_alpha_pct \in RunAlphas
    /\ wavs = <<>> /\ global_rows = <<>> /\ rn_takes = <<>> /\ best_idx = 0
    /\ rn_segments = <<>> /\ rn_seg_rows = <<>> /\ rn_summary = <<>>
    /\ outputs = {} /\ rn_i = 0
    /\ rn_pc = "start"

rn_inputs == <<phrase_dir, rn_files, rn_alpha_pct>>

\* Lines 224-249: the phrase directory and its .wav files.
RunStart ==
    /\ rn_pc = "start"
    /\ IF ~phrase_dir
       THEN rn_pc' = "error" /\ UNCHANGED <<wavs, rn_i>>
       ELSE /\ wavs' = sorted_wavs(DOMAIN rn_files)
            /\ IF wavs' = <<>>
               THEN rn_pc' = "error" /\ UNCHANGED rn_i
               ELSE rn_pc' = "pass1" /\ rn_i' = 1
    /\ UNCHANGED <<global_rows, rn_takes, best_idx, rn_segments, rn_seg_rows,
                   rn_summary, outputs, rn_inputs>>
    /\ UNCHANGED rn_others

\* Lines 257-312: one take of pass 1.
Pass1Take ==
    /\ rn_pc = "pass1"
    /\ rn_i <= Len(wavs)
    /\ LET name == wavs[rn_i]
       IN  /\ global_rows' =
                Append(global_rows, whole_row(name, rn_files[name], rn_alpha_pct))
           /\ rn_takes' =
                Append(rn_takes, [take_id |-> name, dur |-> rn_files[name].dur])
    /\ rn_i' = rn_i + 1
    /\ UNCHANGED <<wavs, best_idx, rn_segments, rn_seg_rows, rn_summary,
                   outputs, rn_pc, rn_inputs>>
    /\ UNCHANGED rn_others

\* Lines 314-323: the whole-take table is written.
Pass1Write ==
    /\ rn_pc = "pass1"
    /\ rn_i > Len(wavs)
    /\ IF global_rows = <<>>
       THEN rn_pc' = "error" /\ UNCHANGED outputs
       ELSE rn_pc' = "pick" /\ outputs' = outputs \cup {"features_csv"}
    /\ UNCHANGED <<wavs, global_rows, rn_takes, best_idx, rn_segments,
                   rn_seg_rows, rn_summary, rn_i, rn_inputs>>
    /\ UNCHANGED rn_others

\* Lines 329-344: the reference take is picked and segmented.
PickReference ==
    /\ rn_pc = "pick"
    /\ best_idx' = argmax_first(global_rows)
    /\ rn_segments' \in RunGrids(rn_takes[best_idx'].dur)
    /\ rn_i' = 1
    /\ rn_pc' = "pass2"
    /\ UNCHANGED <<wavs, global_rows, rn_takes, rn_seg_rows, rn_summary,
                   outputs, rn_inputs>>
    /\ UNCHANGED rn_others

\* Lines 346-405: one take of pass 2.
Pass2Take ==
    /\ rn_pc = "pass2"
    /\ rn_i <= Len(rn_takes)
    /\ rn_seg_rows' = rn_seg_rows \o
           run_rows_of_take(rn_takes[rn_i], rn_files[rn_takes[rn_i].take_id],
                            rn_segments, rn_alpha_pct)
    /\ rn_i' = rn_i + 1
    /\ UNCHANGED <<wavs, global_rows, rn_takes, best_idx, rn_segments,
                   rn_summary, outputs, rn_pc, rn_inputs>>
    /\ UNCHANGED rn_others

\* Lines 425-433: the segment table is written.
Pass2Write ==
    /\ rn_pc = "pass2"
    /\ rn_i > Len(rn_takes)
    /\ IF rn_seg_rows = <<>>
       THEN rn_pc' = "error" /\ UNCHANGED <<outputs, rn_i>>
       ELSE /\ rn_pc' = "build"
            /\ outputs' = outputs \cup {"segments_csv"}
            /\ rn_i' = 1
    /\ UNCHANGED <<wavs, global_rows, rn_takes, best_idx, rn_segments,
                   rn_seg_rows, rn_summary, rn_inputs>>
    /\ UNCHANGED rn_others

\* Lines 449-494: one iteration of the loop over segment indexes.
RunBuildEntry ==
    /\ rn_pc = "build"
    /\ rn_i <= Len(seg_idx_list(rn_seg_rows))
    /\ LET k == seg_idx_list(rn_seg_rows)[rn_i]
       IN  \E sd \in desc_orders(seg_rows_of(rn_seg_rows, k)) :
              rn_summary' =
                  Append(rn_summary, compmap_entry(k, sd, RunDelta, RunTopK))
    /\ rn_i' = rn_i + 1
    /\ UNCHANGED <<wavs, global_rows, rn_takes, best_idx, rn_segments,
                   rn_seg_rows, outputs, rn_pc, rn_inputs>>
    /\ UNCHANGED rn_others

\* Lines 496-522: the comp map is written.
RunWriteCompMap ==
    /\ rn_pc = "build"
    /\ rn_i > Len(seg_idx_list(rn_seg_rows))
    /\ outputs' = outputs \cup {"compmap_json"}
    /\ rn_pc' = "written"
    /\ UNCHANGED <<wavs, global_rows, rn_takes, best_idx, rn_segments,
                   rn_seg_rows, rn_summary, rn_i, rn_inputs>>
    /\ UNCHANGED rn_others

RnNext ==
    \/ RunStart \/ Pass1Take \/ Pass1Write \/ PickReference
    \/ Pass2Take \/ Pass2Write \/ RunBuildEntry \/ RunWriteCompMap

---------------------------------------------------------------------------
(* run_comping.py: the extraction, then the stitcher on the comp map it    *)
(* wrote.  The stitcher names a take by its position in the sorted list    *)
(* of .wav files.                                                          *)

take_no(name) == CHOOSE i \in 1..Len(wavs) : wavs[i] = name

\* The fade fractions a run is given, in percent: none, the default, one.
CompingFades == {0, 15, 100}

\* A pipeline that starts the stitcher while the comp map is being built.
stitch_ready_early == rn_pc \in {"build", "written"}

\* Lines 78-92: run_feature_extraction has returned the comp map's path.
stitch_ready == rn_pc = "written"

\* Lines 92-129: the comp map file is read back and stitch_from_compmap is
\* called with it, the base directory and the fade fraction; load_wav is
\* asked for the one processing rate.
RunCompingStitch ==
    /\ stitch_ready
    /\ st_pc = "idle"
    /\ st_segments' = [k \in 1..Len(rn_summary) |->
                          [ index   |-> rn_summary[k].index,
                            start_s |-> rn_summary[k].start_s,
                            end_s   |-> rn_summary[k].end_s,
                            winner  |-> take_no(rn_summary[k].winner.take) ]]
    /\ target_sr' = SetMin(SrVals)
    /\ wav_files' = [t \in {take_no(rn_summary[k].winner.take) :
                               k \in 1..Len(rn_summary)} |->
                        [rate |-> target_sr', dur |-> rn_files[wavs[t]].dur]]
    /\ fade_fraction' \in CompingFades
    /\ st_pc' = "open"
    /\ UNCHANGED <<audio, sr, target_samples, out_wave, st_i, cf_log, written,
                   st_error>>
    /\ UNCHANGED <<sc_vars, sg_vars, cm_vars, rk_vars, rn_vars, ap_vars, pf_vars,
                   vl_vars>>

RunCompingNext == RnNext \/ RunCompingStitch \/ StNext

---------------------------------------------------------------------------
(* Applying the ranker (scripts/apply_ranker.py).                          *)
(* A learned score is an integer count of units of EpsInv * 1e-9, so that  *)
(* the 1e-9 of the normalisation is 1 / EpsInv of a unit; acc_score is in  *)
(* 1 / Scale, --blend in percent.  learned_norm and final_score are exact  *)
(* fractions [n, d].                                                       *)

EpsInv == 10 * 100

\* --blend, default=0.7
DefaultBlendPct == 70

blend_of(arg) == IF arg = Missing THEN DefaultBlendPct ELSE arg.v

\* df.groupby("phrase"): the rows in the group of row i.
group_of(df, i) == { j \in DOMAIN df : df[j].phrase = df[i].phrase }

\* A normalisation over the whole table instead of the row's phrase.
minmax_norm_whole_table(df, i) ==
    LET raws == { df[j].learned_raw : j \in DOMAIN df }
        lo == CHOOSE v \in raws : \A u \in raws : v <= u
        hi == CHOOSE v \in raws : \A u \in raws : v >= u
    IN  [n |-> (df[i].learned_raw - lo) * EpsInv, d |-> (hi - lo) * EpsInv + 1]

\* lambda s: (s - s.min()) / (s.max() - s.min() + 1e-9), for row i
minmax_norm(df, i) ==
    LET raws == { df[j].learned_raw : j \in group_of(df, i) }
        lo == CHOOSE v \in raws : \A u \in raws : v <= u
        hi == CHOOSE v \in raws : \A u \in raws : v >= u
    IN  [n |-> (df[i].learned_raw - lo) * EpsInv, d |-> (hi - lo) * EpsInv + 1]

\* w * df["learned_norm"] + (1.0 - w) * df["acc_score"]
blend_score(w, norm, acc) ==
    [n |-> w * norm.n * Scale + (100 - w) * acc * norm.d,
     d |-> 100 * Scale * norm.d]

\* a >= b for fractions with positive denominators
FracGe(a, b) == IF a.d = b.d THEN a.n >= b.n ELSE a.n * b.d >= b.n * a.d

\* df.sort_values(["phrase", "final_score"], ascending=[True, False]);
\* rows equal in both keys may come in any order.
ap_sorted(df) ==
    LET n == Len(df)
        perms == { q \in [1..n -> 1..n] : \A a, b \in 1..n : a # b => q[a] # q[b] }
    IN  { [i \in 1..n |-> df[q[i]]] : q \in
            { r \in perms : \A i \in 1..(n - 1) :
                \/ df[r[i]].phrase < df[r[i + 1]].phrase
                \/ /\ df[r[i]].phrase = df[r[i + 1]].phrase
                   /\ FracGe(df[r[i]].final_score, df[r[i + 1]].final_score) } }

\* ---- inputs ----
MaxApRows  == 3
ApPhrases  == {1, 2}
ApAccVals  == {200, 900}
RawVals    == {-2, 0, 3}
BlendArgs  == {Missing, Num(0), Num(40), Num(150)}

NoFrac == [n |-> 0, d |-> 1]

ApRow(ph, acc) ==
    [phrase |-> ph, acc_score |-> acc, learned_raw |-> 0,
     learned_norm |-> NoFrac, final_score |-> NoFrac]

ApIdle ==
    /\ ap_df = <<>> /\ ap_blend = Missing /\ ap_out = <<>> /\ ap_pc = "idle"

ApInit ==
    /\ \E n \in 0..MaxApRows :
         ap_df \in [1..n -> { ApRow(ph, acc) : ph \in ApPhrases, acc \in ApAccVals }]
    /\ ap_blend \in BlendArgs
    /\ ap_out = <<>>
    /\ ap_pc = "start"

\* Lines 31-46: the table and the model are read and every row gets the
\* model's score; np.stack raises on a table without rows.
ApScore ==
    /\ ap_pc = "start"
    /\ IF Len(ap_df) = 0
       THEN /\ ap_pc' = "error"
            /\ UNCHANGED ap_df
       ELSE /\ \E learned \in [DOMAIN ap_df -> RawVals] :
                 ap_df' = [i \in DOMAIN ap_df |->
                              [ap_df[i] EXCEPT !.learned_raw = learned[i]]]
            /\ ap_pc' = "scored"
    /\ UNCHANGED <<ap_blend, ap_out>>
    /\ UNCHANGED ap_others

\* Lines 47-49: min-max normalisation per phrase.
ApNormalize ==
    /\ ap_pc = "scored"
    /\ ap_df' = [i \in DOMAIN ap_df |->
                    [ap_df[i] EXCEPT !.learned_norm = minmax_norm(ap_df, i)]]
    /\ ap_pc' = "normed"
    /\ UNCHANGED <<ap_blend, ap_out>>
    /\ UNCHANGED ap_others

\* Lines 52-53: the blend with acc_score.
ApBlend ==
    /\ ap_pc = "normed"
    /\ ap_df' = [i \in DOMAIN ap_df |->
                    [ap_df[i] EXCEPT !.final_score =
                        blend_score(blend_of(ap_blend), ap_df[i].learned_norm,
                                    ap_df[i].acc_score)]]
    /\ ap_pc' = "blended"
    /\ UNCHANGED <<ap_blend, ap_out>>
    /\ UNCHANGED ap_others

\* Lines 56-58: sorted best to worst per phrase and saved.
ApWrite ==
    /\ ap_pc = "blended"
    /\ ap_out' \in ap_sorted(ap_df)
    /\ ap_pc' = "written"
    /\ UNCHANGED <<ap_df, ap_blend>>
    /\ UNCHANGED ap_others

ApNext == ApScore \/ ApNormalize \/ ApBlend \/ ApWrite

---------------------------------------------------------------------------
(* Pitch feature: features.py, pitch_rmse_vs_median, and the pitch        *)
(* sub-score norm_block derives from its value.  Frequencies in Hz,       *)
(* periodicity in percent, the RMSE in cents.  The RMSE of the voiced     *)
(* frames is an input: any non-negative number of cents.                  *)

\* pd_thresh=0.6
PdThresh == 60
\* if len(f0v) < 5
MinVoiced == 5
\* return 120.0
FallbackRmse == 120

RECURSIVE count_voiced(_, _)
\* voiced = (f0 > 0) & (pd >= pd_thresh), or f0 > 0 without pd; len(f0v)
count_voiced(fr, with_pd) ==
    IF fr = <<>> THEN 0
    ELSE (IF Head(fr).f0 > 0 /\ (with_pd => Head(fr).pd >= PdThresh) THEN 1 ELSE 0)
           + count_voiced(Tail(fr), with_pd)

\* A fallback equal to the worst case of norm_block.
pitch_rmse_worst_case(fr, with_pd, err) ==
    IF count_voiced(fr, with_pd) < MinVoiced THEN PitchWorst ELSE err

pitch_rmse_vs_median(fr, with_pd, err) ==
    IF count_voiced(fr, with_pd) < MinVoiced THEN FallbackRmse ELSE err

\* The pitch sub-score of a row whose f0_rmse_c is c.
pitch_sub_score(c) == norm_block([NoRow EXCEPT !.f0_rmse_c = Num(c)]).pitch_rmse

\* ---- inputs ----
MaxFrames  == 6
FrameVals  == [f0 : {0, 220}, pd : {50, 70}]
PfErrVals  == {0, 90, 200, 450}

PfIdle ==
    /\ pf_frames = <<>> /\ pf_pd_given = FALSE /\ pf_err = 0
    /\ pf_rmse = 0 /\ pf_pitch = 0 /\ pf_pc = "idle"

PfInit ==
    /\ \E n \in 0..MaxFrames : pf_frames \in [1..n -> FrameVals]
    /\ pf_pd_given \in BOOLEAN
    /\ pf_err \in PfErrVals
    /\ pf_rmse = 0 /\ pf_pitch = 0
    /\ pf_pc = "frames"

\* features.py lines 61-83, as called at extract_features.py lines 276, 383.
PfMeasure ==
    /\ pf_pc = "frames"
    /\ pf_rmse' = pitch_rmse_vs_median(pf_frames, pf_pd_given, pf_err)
    /\ pf_pc' = "measured"
    /\ UNCHANGED <<pf_frames, pf_pd_given, pf_err, pf_pitch>>
    /\ UNCHANGED pf_others

\* scoring.py lines 31-32, on the row that carries the value.
PfNorm ==
    /\ pf_pc = "measured"
    /\ pf_pitch' = pitch_sub_score(pf_rmse)
    /\ pf_pc' = "normed"
    /\ UNCHANGED <<pf_frames, pf_pd_given, pf_err, pf_rmse>>
    /\ UNCHANGED pf_others

PfNext == PfMeasure \/ PfNorm

---------------------------------------------------------------------------
(* Valley de-duplication: segmentation.py, _find_rms_valleys, lines 74-95. *)
(* A detected valley is [t, r]: its time in ms and its normalised RMS in   *)
(* percent.                                                                *)

\* A step that keeps the first valley of a group whatever comes after.
dedup_step_keep_first(kt, kr, v) ==
    IF kt = <<>> THEN [times |-> <<v.t>>, rms |-> <<v.r>>]
    ELSE IF v.t - Last(kt) < ValleySpacing
    THEN [times |-> kt, rms |-> kr]
    ELSE [times |-> Append(kt, v.t), rms |-> Append(kr, v.r)]

\* Lines 78-93: one detected valley against the last one kept.
dedup_step(kt, kr, v) ==
    IF kt = <<>> THEN [times |-> <<v.t>>, rms |-> <<v.r>>]
    ELSE IF v.t - Last(kt) < ValleySpacing
    THEN IF v.r < Last(kr)
         THEN [times |-> [kt EXCEPT ![Len(kt)] = v.t],
               rms   |-> [kr EXCEPT ![Len(kr)] = v.r]]
         ELSE [times |-> kt, rms |-> kr]
    ELSE [times |-> Append(kt, v.t), rms |-> Append(kr, v.r)]

\* ---- inputs ----
MaxDetected == 4
DetTimes == {100, 200, 270, 290, 440, 470}
DetRms == {10, 30, 50}

VlIdle ==
    /\ valley_idxs = <<>> /\ keep_times = <<>> /\ keep_rms = <<>>
    /\ vl_i = 0 /\ vl_pc = "idle"

\* The local minima below the quiet threshold, in frame order (lines 57-69).
VlInit ==
    /\ \E T \in SUBSET DetTimes :
         /\ Cardinality(T) <= MaxDetected
         /\ \E rs \in [T -> DetRms] :
              valley_idxs = [k \in 1..Cardinality(T) |->
                                [t |-> SortedSeq(T)[k], r |-> rs[SortedSeq(T)[k]]]]
    /\ keep_times = <<>> /\ keep_rms = <<>>
    /\ vl_i = 1
    /\ vl_pc = "dedup"

\* Lines 78-93: one iteration of the loop over valley_idxs.
DedupValley ==
    /\ vl_pc = "dedup"
    /\ vl_i <= Len(valley_idxs)
    /\ LET k == dedup_step(keep_times, keep_rms, valley_idxs[vl_i])
       IN  keep_times' = k.times /\ keep_rms' = k.rms
    /\ vl_i' = vl_i + 1
    /\ UNCHANGED <<valley_idxs, vl_pc>>
    /\ UNCHANGED vl_others

\* Line 95: the kept times are returned.
DedupReturn ==
    /\ vl_pc = "dedup"
    /\ vl_i > Len(valley_idxs)
    /\ vl_pc' = "done"
    /\ UNCHANGED <<valley_idxs, keep_times, keep_rms, vl_i>>
    /\ UNCHANGED vl_others

VlNext == DedupValley \/ DedupReturn

---------------------------------------------------------------------------
(* Specifications: one per component; the other components stay idle. *)

InitScore == ScInit /\ SgIdle /\ CmIdle /\ StIdle /\ RkIdle /\ RnIdle /\ ApIdle
    /\ PfIdle /\ VlIdle
SpecScore == InitScore /\ [][ScNext]_vars

InitSegment == SgInit /\ ScIdle /\ CmIdle /\ StIdle /\ RkIdle /\ RnIdle /\ ApIdle
    /\ PfIdle /\ VlIdle
SpecSegment == InitSegment /\ [][SgNext]_vars

\* The loop of the segmenter is a sequential program: a step that can be
\* taken is taken.
SpecSegmentFair == SpecSegment /\ WF_vars(SgNext)

InitCompMap == CmInit /\ ScIdle /\ SgIdle /\ StIdle /\ RkIdle /\ RnIdle /\ ApIdle
    /\ PfIdle /\ VlIdle
SpecCompMap == InitCompMap /\ [][CmNext]_vars

InitStitch == StInit /\ ScIdle /\ SgIdle /\ CmIdle /\ RkIdle /\ RnIdle /\ ApIdle
    /\ PfIdle /\ VlIdle
SpecStitch == InitStitch /\ [][StNext]_vars

InitRanker == RkInit /\ ScIdle /\ SgIdle /\ CmIdle /\ StIdle /\ RnIdle /\ ApIdle
    /\ PfIdle /\ VlIdle
SpecRanker == InitRanker /\ [][RkNext]_vars

InitRun == RnInit /\ ScIdle /\ SgIdle /\ CmIdle /\ StIdle /\ RkIdle /\ ApIdle
    /\ PfIdle /\ VlIdle
SpecRun == InitRun /\ [][RnNext]_vars

InitApply == ApInit /\ ScIdle /\ SgIdle /\ CmIdle /\ StIdle /\ RkIdle /\ RnIdle
    /\ PfIdle /\ VlIdle
SpecApply == InitApply /\ [][ApNext]_vars

\* The three programs an operator runs: the extraction, the stitcher and
\* the ranker scripts, each from its own start.
InitPitch == PfInit /\ ScIdle /\ SgIdle /\ CmIdle /\ StIdle /\ RkIdle /\ RnIdle
    /\ ApIdle /\ VlIdle
SpecPitch == InitPitch /\ [][PfNext]_vars

InitValleys == VlInit /\ ScIdle /\ SgIdle /\ CmIdle /\ StIdle /\ RkIdle /\ RnIdle
    /\ ApIdle /\ PfIdle
SpecValleys == InitValleys /\ [][VlNext]_vars

\* One run of run_comping, from the start of the extraction.
SpecComping == InitRun /\ [][RunCompingNext]_vars

InitPrograms == InitRun \/ InitStitch \/ InitRanker
NextPrograms == RnNext \/ StNext \/ RkNext
SpecPrograms == InitPrograms /\ [][NextPrograms]_vars

---------------------------------------------------------------------------
(* Claims *)

InUnit(x, one) == 0 <= x /\ x <= one

\* C1: for every feature row, with missing, non-finite or out-of-range raw
\* measurements included, the four sub-scores of norm_block and the values
\* of accuracy_score, emotion_score (default weights) and final_blend all
\* lie in [0, 1].
C1_ScoresInUnitRange ==
    sc_pc = "scored" =>
        /\ InUnit(nblk.pitch_rmse, Scale)
        /\ InUnit(nblk.snr, Scale)
        /\ InUnit(nblk.deess, Scale)
        /\ InUnit(nblk.clip_ok, Scale)
        /\ InUnit(acc_score, AccScale)
        /\ InUnit(emo_score, AccScale)
        /\ InUnit(final_score, FinalScale)

\* A scored row whose raw measurements are out of range, non-finite and
\* missing, blended with an alpha above 100 %.
C1_Witness ==
    /\ sc_pc = "scored"
    /\ row.f0_rmse_c = Num(450)
    /\ row.snr_db = NegInf
    /\ row.deess_ratio = Missing
    /\ row.clip_n = Num(3)
    /\ row.vibrato_stability = NaN
    /\ alpha_pct = 150

\* C2: the list segment_phrase_reference returns is ordered ascending,
\* contiguous and non-overlapping, starts at 0 and ends exactly at the
\* phrase duration, and every segment except possibly the last (a merged
\* tail) is at least min_seg_dur long.
C2_SegmentsPartitionPhrase ==
    sg_pc = "done" =>
        /\ Len(segments) >= 1
        /\ segments[1][1] = 0
        /\ Last(segments)[2] = dur
        /\ \A i \in 1..Len(segments) : segments[i][1] < segments[i][2]
        /\ \A i \in 1..(Len(segments) - 1) :
              /\ segments[i + 1][1] = segments[i][2]
              /\ segments[i][2] - segments[i][1] >= min_seg_dur

\* The entries of the comp map built so far.
Entries == { segments_summary[i] : i \in 1..Len(segments_summary) }
Cands(e) == { e.candidates[i] : i \in 1..Len(e.candidates) }
\* The rows of an entry's segment that are not the winner's and lie within
\* diversity_delta of the winner.
NearRows(e) ==
    { i \in 1..Len(seg_rows) :
        /\ seg_rows[i].segment_idx = e.index
        /\ seg_rows[i].take # e.winner.take
        /\ e.winner.final_score - seg_rows[i].final_score <= diversity_delta }

\* C3 (as stated): in every comp-map entry, for any diversity_delta and
\* top_k, there are at most top_k - 1 candidates, every candidate's final
\* score is at most the winner's, and the winner's score exceeds no
\* candidate's by more than diversity_delta.
C3_CandidatesBounded ==
    \A e \in Entries :
        /\ Len(e.candidates) <= top_k - 1
        /\ \A c \in Cands(e) :
              /\ c.final_score <= e.winner.final_score
              /\ e.winner.final_score - c.final_score <= diversity_delta

\* C3 (amended): the same, with at most max(top_k - 1, 0) candidates.
C3_CandidatesBoundedFromZero ==
    \A e \in Entries :
        /\ Len(e.candidates) <= Max2(top_k - 1, 0)
        /\ \A c \in Cands(e) :
              /\ c.final_score <= e.winner.final_score
              /\ e.winner.final_score - c.final_score <= diversity_delta

\* An entry whose candidate list was cut by the cap: two other takes lie
\* within diversity_delta of the winner and top_k = 2 lets one in.
C3_Witness ==
    /\ cm_pc = "written"
    /\ top_k = 2
    /\ \E e \in Entries : Len(e.candidates) = 1 /\ Cardinality(NearRows(e)) = 2

\* C4 (as stated): in every comp-map entry each candidate's final score is
\* strictly lower than the winner's, and the candidates are listed in
\* descending order of final score.
C4_CandidatesStrictlyWorse ==
    \A e \in Entries :
        /\ \A c \in Cands(e) : c.final_score < e.winner.final_score
        /\ \A i \in 1..(Len(e.candidates) - 1) :
              e.candidates[i].final_score >= e.candidates[i + 1].final_score

\* C4 (amended): each candidate's final score is at most the winner's (a
\* take that ties the winner can be listed), and the candidates are listed
\* in non-increasing order of final score.
C4_CandidatesNotBetter ==
    \A e \in Entries :
        /\ \A c \in Cands(e) : c.final_score <= e.winner.final_score
        /\ \A i \in 1..(Len(e.candidates) - 1) :
              e.candidates[i].final_score >= e.candidates[i + 1].final_score

\* An entry that lists a take tying the winner, then a lower-scoring take.
C4_Witness ==
    /\ cm_pc = "written"
    /\ \E e \in Entries :
         /\ Len(e.candidates) = 2
         /\ e.candidates[1].final_score = e.winner.final_score
         /\ e.candidates[2].final_score < e.winner.final_score

---------------------------------------------------------------------------
(* Stitcher claims. *)

\* The hard-composite and crossfade passes are over.
PassesDone == st_pc = "done" \/ (st_pc = "fade" /\ st_i > num_segs - 1)

SameTake == \A k \in 1..num_segs : seg_take(k) = seg_take(1)

InAppliedWindow(i) ==
    \E n \in 1..Len(cf_log) :
        /\ cf_log[n].applied
        /\ cf_log[n].start_sample_cf <= i /\ i < cf_log[n].end_sample_cf

\* C5: when every segment names the same winning take, the buffer after the
\* passes has round(compmap_end * sr) samples, each equal to the take's
\* sample at the same index, and the written samples are the take's samples
\* times one positive gain.
C5_SameTakeRoundTrip ==
    (st_pc = "done" /\ SameTake) =>
        LET y == audio[seg_take(1)]
        IN  /\ DOMAIN out_wave = 0..(sample_of_ms(phrase_end_s, sr) - 1)
            /\ DOMAIN written = DOMAIN out_wave
            /\ \A i \in DOMAIN out_wave : out_wave[i] = Frac(y[i], 1)
            /\ \A i, j \in DOMAIN written :
                  written[i].n * written[j].d * y[j]
                     = written[j].n * written[i].d * y[i]
            /\ \A i \in DOMAIN written : written[i].n * y[i] > 0

C5_Witness ==
    /\ st_pc = "done" /\ SameTake
    /\ num_segs = 3
    /\ fade_fraction > 100
    /\ \A n \in 1..Len(cf_log) : cf_log[n].applied
    /\ Len(cf_log) = 2

StatedFade(d1, d2, ff) ==
    LET desired == (IF d1 < d2 THEN d1 ELSE d2) * ff
        raised == IF desired < 3000 THEN 3000 ELSE desired
        lowered == IF raised > 50000 THEN 50000 ELSE raised
    IN  IF lowered > (d1 + d2) * 100 THEN (d1 + d2) * 100 ELSE lowered

\* C7: at every interior boundary with positive durations and a positive
\* fade_fraction the fade length is the stated clamp of min(d1, d2) *
\* fade_fraction, and the window runs from half that length before the
\* boundary to half after it; 1.0 s, 1.0 s and 0.15 give 150 ms, 75 ms a side.
C7_FadeLengthClamped ==
    \A n \in 1..Len(cf_log) :
        LET c == cf_log[n]
            d1 == seg_dur_s(c.b)
            d2 == seg_dur_s(c.b + 1)
        IN  (d1 > 0 /\ d2 > 0 /\ fade_fraction > 0) =>
                /\ c.computed
                /\ c.fade_s = StatedFade(d1, d2, fade_fraction)
                /\ c.end_s_cf - c.start_s_cf = 2 * c.fade_s
                /\ c.start_s_cf + c.end_s_cf = 2 * seg_end_s(c.b) * FinePerMs
                /\ (d1 = 1000 /\ d2 = 1000 /\ fade_fraction = 15) =>
                      /\ c.fade_s = 150 * 100
                      /\ seg_end_s(c.b) * FinePerMs - c.start_s_cf = 75 * FinePerMs
                      /\ c.end_s_cf - seg_end_s(c.b) * FinePerMs = 75 * FinePerMs

C7_Witness ==
    /\ Len(cf_log) = 1
    /\ seg_dur_s(1) = 1000 /\ seg_dur_s(2) = 1000 /\ fade_fraction = 15
    /\ cf_log[1].applied
    /\ cf_log[1].fade_s = 15000
    /\ cf_log[1].end_sample_cf - cf_log[1].start_sample_cf = (150 * sr) \div 1000

---------------------------------------------------------------------------
(* Ranker claims. *)

SwapAB(r) == [r EXCEPT !.a = r.b, !.b = r.a]
Labels0 == [k \in 1..Len(pairs) |-> pairs[k].label]
Vecs0 == [k \in 1..Len(pairs) |-> row_to_vec(pairs[k])]

\* C8: for any two takes A and B of the table, the delta vector built for
\* (A, B) is, component by component, the negation of the one built for
\* (B, A); so is every row of the design matrix.
C8_DeltaVectorAntisymmetric ==
    /\ rk_pc = "paired" =>
       \A i, j \in 1..Len(features_df) :
          LET A == features_df[i]
              B == features_df[j]
              ab == row_to_vec(pair_row(A.phrase, A, B, rk_delta))
              ba == row_to_vec(pair_row(A.phrase, B, A, rk_delta))
          IN  /\ Len(ab) = 6 /\ Len(ba) = 6
              /\ \A c \in 1..6 : ab[c] = -ba[c]
    /\ rk_pc = "trained" =>
          \A k \in 1..Len(pairs) :
              \A c \in 1..6 : X_train[k][c] = -row_to_vec(SwapAB(pairs[k]))[c]

C8_Witness ==
    /\ rk_pc = "trained"
    /\ \E k \in 1..Len(pairs) :
          /\ \A c \in 1..6 : X_train[k][c] # 0
          /\ \E c \in 1..6 : X_train[k][c] > 0
          /\ X_train[k] = NegVec(row_to_vec(SwapAB(pairs[k])))

\* The labels of the pair table are single-class or skewed beyond 1:5.
SingleOrSkewed ==
    LET m0 == CountOf(Labels0, 0)
        m1 == CountOf(Labels0, 1)
    IN  m0 = 0 \/ m1 = 0 \/ (m0 <= m1 /\ 5 * m0 < m1) \/ (m1 <= m0 /\ 5 * m1 < m0)

\* C9: the set handed to the classifier holds both classes with a minority
\* to majority ratio of at least 0.2: for single-class or skewed labels it
\* is the original rows followed by every row negated with the label
\* complemented, with equal class counts; otherwise it is the original set.
C9_TrainingSetBalanced ==
    rk_pc = "trained" =>
        LET n0 == CountOf(y_train, 0)
            n1 == CountOf(y_train, 1)
            n == Len(pairs)
        IN  /\ n0 > 0 /\ n1 > 0
            /\ 5 * n0 >= n1 /\ 5 * n1 >= n0
            /\ Len(X_train) = Len(y_train)
            /\ SingleOrSkewed =>
                  /\ Len(X_train) = 2 * n
                  /\ \A k \in 1..n :
                        /\ X_train[k] = Vecs0[k] /\ y_train[k] = Labels0[k]
                        /\ X_train[n + k] = NegVec(Vecs0[k])
                        /\ y_train[n + k] = 1 - Labels0[k]
                  /\ n0 = n1
            /\ ~SingleOrSkewed => (X_train = Vecs0 /\ y_train = Labels0)

C9_Witness ==
    /\ rk_pc = "trained"
    /\ flipped
    /\ CountOf(Labels0, 1) = 1
    /\ CountOf(Labels0, 0) > 5
    /\ CountOf(y_train, 0) = CountOf(y_train, 1)

SamePhrasePairs ==
    {ij \in (1..Len(features_df)) \X (1..Len(features_df)) :
        /\ ij[1] < ij[2]
        /\ features_df[ij[1]].phrase = features_df[ij[2]].phrase}

AccDiff(i, j) == Abs(features_df[i].acc_score - features_df[j].acc_score)

RowsFor(i, j) ==
    {k \in 1..Len(pairs) : {pairs[k].take_a, pairs[k].take_b} = {i, j}}

\* C10: the pair table has exactly one row per unordered pair of takes of
\* the same phrase and no other row; a row's label is 1 iff acc(A) > acc(B)
\* and its is_auto is 1 iff |acc(A) - acc(B)| >= delta; with delta 0.08 a
\* difference of 0.10 gives is_auto 1 and one of 0.05 gives a row with
\* is_auto 0.
C10_OneRowPerSamePhrasePair ==
    rk_pc \in {"paired", "trained", "error"} =>
        /\ Len(pairs) = Cardinality(SamePhrasePairs)
        /\ \A ij \in SamePhrasePairs : Cardinality(RowsFor(ij[1], ij[2])) = 1
        /\ \A k \in 1..Len(pairs) :
              LET A == features_df[pairs[k].take_a]
                  B == features_df[pairs[k].take_b]
              IN  /\ pairs[k].take_a # pairs[k].take_b
                  /\ A.phrase = pairs[k].phrase /\ B.phrase = pairs[k].phrase
                  /\ pairs[k].label \in {0, 1}
                  /\ pairs[k].label = 1 <=> A.acc_score > B.acc_score
                  /\ pairs[k].is_auto \in {0, 1}
                  /\ pairs[k].is_auto = 1 <=>
                        Abs(A.acc_score - B.acc_score) >= rk_delta
        /\ rk_delta = 8 =>
              \A ij \in SamePhrasePairs :
                  /\ AccDiff(ij[1], ij[2]) = 10 =>
                        \A k \in RowsFor(ij[1], ij[2]) : pairs[k].is_auto = 1
                  /\ AccDiff(ij[1], ij[2]) = 5 =>
                        \A k \in RowsFor(ij[1], ij[2]) : pairs[k].is_auto = 0

C10_Witness ==
    /\ rk_pc = "paired"
    /\ rk_delta = 8
    /\ \E i, j \in 1..Len(features_df) :
          features_df[i].phrase # features_df[j].phrase
    /\ \E k \in 1..Len(pairs) : pairs[k].delta = 10 /\ pairs[k].is_auto = 1
    /\ \E k \in 1..Len(pairs) :
          pairs[k].delta = 5 /\ pairs[k].is_auto = 0 /\ pairs[k].label = 1
    /\ \E k \in 1..Len(pairs) : pairs[k].delta = 0 /\ pairs[k].label = 0
    /\ \E p \in Phrases : Cardinality({k \in 1..Len(pairs) : pairs[k].phrase = p}) = 3

---------------------------------------------------------------------------
(* Scorer claims, continued. *)

\* C11: the clip sub-score of norm_block is 1.0 for a clip count of 0 and
\* 0.6 for every other count, whatever its size; it takes no other value.
C11_ClipScoreTwoValued ==
    sc_pc = "scored" =>
        /\ nblk.clip_ok \in {Scale, 6 * 100}
        /\ row.clip_n.k = "num" =>
              /\ row.clip_n.v = 0 => nblk.clip_ok = Scale
              /\ row.clip_n.v # 0 => nblk.clip_ok = 6 * 100

C11_Witness ==
    /\ sc_pc = "scored"
    /\ row.clip_n = Num(48000)
    /\ nblk.clip_ok = 6 * 100

---------------------------------------------------------------------------
(* Claims on one run of run_feature_extraction. *)

AllRunRows ==
    {global_rows[i] : i \in 1..Len(global_rows)}
        \cup {rn_seg_rows[i] : i \in 1..Len(rn_seg_rows)}

\* C12: every row of the run, whole-take or per-segment, carries the run's
\* alpha and a final score a * acc + (1 - a) * emo with a the alpha clamped
\* to [0, 1]; an alpha of 1 or more gives acc, an alpha of 0 or less emo.
C12_BlendWithRunAlpha ==
    \A r \in AllRunRows :
        LET a == IF r.alpha < 0 THEN 0 ELSE IF r.alpha > 100 THEN 100 ELSE r.alpha
        IN  /\ r.alpha = rn_alpha_pct
            /\ r.final_score = a * r.acc_score + (100 - a) * r.emo_score
            /\ rn_alpha_pct >= 100 => r.final_score = 100 * r.acc_score
            /\ rn_alpha_pct <= 0 => r.final_score = 100 * r.emo_score

C12_Witness ==
    /\ rn_pc = "build"
    /\ rn_alpha_pct = 150
    /\ Len(global_rows) = 2
    /\ Len(rn_seg_rows) = 4
    /\ \E r \in AllRunRows : r.final_score = 6000
    /\ \E r \in AllRunRows : r.final_score = 5000

RefRow == global_rows[best_idx]
TiesWithRef ==
    {i \in 1..Len(global_rows) :
        i # best_idx /\ global_rows[i].final_score = RefRow.final_score}

RunBuilt == rn_pc \in {"build", "written"}

C18_EveryTakeScoredOnEverySegment ==
    RunBuilt =>
        \A t \in 1..Len(rn_takes), k \in 1..Len(rn_segments) :
            \E i \in 1..Len(rn_seg_rows) :
                /\ rn_seg_rows[i].take = rn_takes[t].take_id
                /\ rn_seg_rows[i].segment_idx = k - 1

---------------------------------------------------------------------------
(* Stitcher claims, continued. *)

Allocated == st_pc \in {"hard", "fade", "done"}

ShortestWinner == SetMin({WaveLen(audio[seg_take(k)]) : k \in 1..num_segs})

\* No sample is taken from beyond the audio of the take it comes from:
\* every hard copy and every applied crossfade window ends inside the
\* buffer and inside the waveforms it reads.
ReadsInsideAudio ==
    /\ \A k \in 1..num_segs :
          hard_end(k) > hard_start(k) =>
              hard_end(k) <= Min2(target_samples, WaveLen(audio[seg_take(k)]))
    /\ \A n \in 1..Len(cf_log) :
          cf_log[n].applied =>
              cf_log[n].end_sample_cf <=
                  Min2(target_samples,
                       Min2(WaveLen(audio[seg_take(cf_log[n].b)]),
                            WaveLen(audio[seg_take(cf_log[n].b + 1)])))

\* C13 as stated: the buffer has round(compmap_end * sr) samples, clamped
\* to the shortest waveform among the winning takes, and no output sample
\* lies beyond the audio of the take it is read from.
C13_BufferClampedToShortestWinner ==
    Allocated =>
        /\ WaveLen(out_wave) = Min2(sample_of_ms(phrase_end_s, sr), ShortestWinner)
        /\ ReadsInsideAudio

\* C13, amended: the clamp is to the waveform of the first segment's
\* winner alone.
C13_BufferClampedToFirstWinner ==
    Allocated =>
        /\ target_samples =
              Min2(sample_of_ms(phrase_end_s, sr), WaveLen(audio[seg_take(1)]))
        /\ WaveLen(out_wave) = target_samples
        /\ ReadsInsideAudio

C13_Witness ==
    /\ st_pc = "done"
    /\ num_segs = 2
    /\ WaveLen(out_wave) = WaveLen(audio[seg_take(1)])
    /\ WaveLen(out_wave) < sample_of_ms(phrase_end_s, sr)
    /\ WaveLen(audio[seg_take(2)]) > WaveLen(out_wave)

FileRatesDiffer ==
    \E t, u \in DOMAIN wav_files : wav_files[t].rate # wav_files[u].rate

\* C14 as stated: when a winning take's file has another sample rate than
\* the reference, stitching aborts and writes nothing.
C14_MismatchAborts ==
    (st_pc # "open" /\ FileRatesDiffer) => (st_pc = "error" /\ written = <<>>)

\* C14, amended: a winning take's file at another rate is resampled to the
\* processing rate when it is loaded, so every take is returned at that
\* rate, the mismatch error is never raised, and the take is stitched.
C14_MismatchResampled ==
    /\ st_error # "sample rate mismatch"
    /\ st_pc \in {"load", "hard", "fade", "done"} =>
          /\ sr = target_sr
          /\ \A t \in winner_ids :
                WaveLen(audio[t]) = (wav_files[t].dur * target_sr) \div 1000
    /\ st_pc = "done" => written # <<>>

C14_Witness ==
    /\ st_pc = "done"
    /\ FileRatesDiffer
    /\ num_segs = 2
    /\ seg_take(1) # seg_take(2)
    /\ wav_files[seg_take(2)].rate # target_sr
    /\ \E i \in DOMAIN out_wave : out_wave[i] = Frac(audio[seg_take(2)][i], 1)
    /\ written # <<>>

---------------------------------------------------------------------------
(* Error handling across the programs. *)

\* C15: when a program aborts on an input error (phrase directory missing,
\* no .wav file, no score row, comp map without segments, empty pair
\* table), it has written none of its artifacts: no features CSV, segments
\* CSV or comp-map JSON, no stitched WAV, no model file.
C15_NoOutputOnInputError ==
    /\ rn_pc = "error" => outputs = {}
    /\ st_pc = "error" => written = <<>>
    /\ rk_pc = "error" => ~model_file

C15_Witness ==
    /\ rn_pc = "error"
    /\ phrase_dir
    /\ DOMAIN rn_files = {}
    /\ outputs = {}

---------------------------------------------------------------------------
(* Degenerate segmentation. *)

Degenerate == dur <= 2 * min_seg_dur \/ valley_times = <<>>

\* C19: when the phrase lasts at most 2 * min_seg_dur, or the valley
\* detector finds no valley, segment_phrase_reference returns exactly one
\* segment (0, duration): it goes from the call straight to its return,
\* without entering the boundary walk and without an error.
C19_DegenerateIsWholePhrase ==
    (Degenerate /\ sg_pc # "call" /\ sg_pc # "idle") =>
        /\ sg_pc = "done"
        /\ segments = << <<0, dur>> >>
        /\ boundaries = <<>>

C19_Witness ==
    /\ sg_pc = "done"
    /\ dur > 2 * min_seg_dur
    /\ valley_times = <<>>
    /\ segments = << <<0, dur>> >>

---------------------------------------------------------------------------
(* Applying the ranker. *)

FracLt(a, b) == a.n * b.d < b.n * a.d

\* C20: in apply_ranker every learned_norm lies in [0, 1]; within a phrase
\* a take with a higher (equal) raw learned score has a higher (equal)
\* learned_norm; a phrase with one take or with all raw scores equal gets
\* learned_norm 0; and every row's final_score, in the table and in the
\* written file, is blend * learned_norm + (1 - blend) * acc_score, blend
\* being 0.7 when --blend is not given.
C20_NormPerPhraseAndBlend ==
    ap_pc \in {"blended", "written"} =>
        LET w == IF ap_blend = Missing THEN 70 ELSE ap_blend.v IN
        /\ \A i \in DOMAIN ap_df :
             LET r == ap_df[i] IN
             /\ r.learned_norm.d > 0
             /\ 0 <= r.learned_norm.n /\ r.learned_norm.n <= r.learned_norm.d
             /\ \A j \in DOMAIN ap_df :
                  ap_df[j].phrase = r.phrase =>
                    /\ r.learned_raw < ap_df[j].learned_raw =>
                         FracLt(r.learned_norm, ap_df[j].learned_norm)
                    /\ r.learned_raw = ap_df[j].learned_raw =>
                         FracEq(r.learned_norm, ap_df[j].learned_norm)
             /\ (\A j \in DOMAIN ap_df :
                   ap_df[j].phrase = r.phrase => ap_df[j].learned_raw = r.learned_raw)
                  => r.learned_norm.n = 0
             /\ Frac(r.final_score.n, r.final_score.d) =
                  Frac(w * r.learned_norm.n * Scale
                         + (100 - w) * r.acc_score * r.learned_norm.d,
                       100 * Scale * r.learned_norm.d)
        /\ ap_pc = "written" =>
             /\ Len(ap_out) = Len(ap_df)
             /\ \A k \in DOMAIN ap_out : \E i \in DOMAIN ap_df : ap_out[k] = ap_df[i]

C20_Witness ==
    /\ ap_pc = "written"
    /\ ap_blend = Missing
    /\ Len(ap_df) = 3
    /\ ap_df[1].phrase = 1 /\ ap_df[2].phrase = 1 /\ ap_df[3].phrase = 2
    /\ ap_df[1].learned_raw = 3 /\ ap_df[2].learned_raw = -2
    /\ ap_df[3].learned_raw = 3
    /\ ap_df[1].learned_norm = [n |-> 5 * EpsInv, d |-> 5 * EpsInv + 1]
    /\ ap_df[2].learned_norm.n = 0
    /\ ap_df[3].learned_norm.n = 0
    /\ ap_df[3].final_score.n > 0

---------------------------------------------------------------------------
(* The pitch fallback. *)

TooFewVoiced == count_voiced(pf_frames, pf_pd_given) < MinVoiced

\* C21 as stated: with too few voiced frames pitch_rmse_vs_median returns
\* a constant whose pitch sub-score is the minimum, never higher than the
\* sub-score of a measured RMSE.
C21_FallbackIsWorstCase ==
    (pf_pc = "normed" /\ TooFewVoiced) =>
        /\ pf_pitch = 0
        /\ \A e \in PfErrVals : pf_pitch <= pitch_sub_score(e)

\* C21: with fewer than 5 voiced frames pitch_rmse_vs_median returns the
\* constant 120 cents whatever the frames hold, and norm_block gives that
\* value the pitch sub-score 0.6; with 5 voiced frames or more it returns
\* the measured RMSE.
C21_FallbackIsFixed120 ==
    pf_pc \in {"measured", "normed"} =>
        /\ TooFewVoiced => pf_rmse = 120
        /\ ~TooFewVoiced => pf_rmse = pf_err
        /\ (pf_pc = "normed" /\ TooFewVoiced) => pf_pitch = (6 * Scale) \div 10

C21_Witness ==
    /\ pf_pc = "normed"
    /\ pf_pd_given
    /\ Len(pf_frames) = 6
    /\ \A i \in 1..5 : pf_frames[i].f0 > 0
    /\ pf_frames[6].pd < PdThresh
    /\ \E i \in 1..5 : pf_frames[i].pd < PdThresh
    /\ pf_err = 200
    /\ pf_rmse = 120
    /\ pf_pitch > pitch_sub_score(200)

---------------------------------------------------------------------------
(* The order of the stages of one run_comping run. *)

Pass1Complete == Len(global_rows) = Len(wavs) /\ Len(wavs) > 0

Pass2Complete ==
    \A t \in 1..Len(rn_takes), k \in 1..Len(rn_segments) :
        has_row(rn_takes[t].dur, rn_segments[k]) =>
            \E i \in 1..Len(rn_seg_rows) :
                /\ rn_seg_rows[i].take = rn_takes[t].take_id
                /\ rn_seg_rows[i].segment_idx = k - 1

StageOrderStep ==
    \* pass 1 is over when the reference take is chosen, and stays over
    /\ best_idx' # best_idx => Pass1Complete /\ global_rows' = global_rows
    /\ global_rows' # global_rows => best_idx = 0 /\ best_idx' = 0
    \* the reference take is segmented once, when it is chosen
    /\ rn_segments' # rn_segments =>
          rn_segments = <<>> /\ best_idx = 0 /\ best_idx' # 0
    \* pass 2 runs on that segmentation, before any comp-map entry
    /\ rn_seg_rows' # rn_seg_rows =>
          /\ rn_segments # <<>> /\ rn_segments' = rn_segments
          /\ rn_summary = <<>> /\ rn_summary' = <<>>
    \* the comp map is built from the finished pass 2, and once
    /\ rn_summary' # rn_summary =>
          /\ Pass2Complete /\ rn_seg_rows' = rn_seg_rows
          /\ "compmap_json" \notin outputs
          /\ Len(rn_summary') = Len(rn_summary) + 1
          /\ SubSeq(rn_summary', 1, Len(rn_summary)) = rn_summary
    /\ ("compmap_json" \in outputs' /\ "compmap_json" \notin outputs) =>
          /\ rn_summary' = rn_summary
          /\ Len(rn_summary) = Len(seg_idx_list(rn_seg_rows))
    \* the stitcher starts after the comp map is written and only reads it
    /\ st_vars' # st_vars =>
          /\ "compmap_json" \in outputs
          /\ rn_vars' = rn_vars
    \* the WAV is written last
    /\ written' # written => st_pc' = "done" /\ written = <<>>
    /\ written # <<>> => st_vars' = st_vars /\ rn_vars' = rn_vars

\* C22: in one run_comping run, pass 1 has scored every take before the
\* reference take is chosen; the reference take is segmented exactly once;
\* pass 2 has scored every take before the first comp-map entry is built;
\* the comp map is built once and written before the stitcher starts; the
\* stitcher leaves the comp map and every other result of the extraction
\* unchanged, and writing the WAV is its last step.
C22_StagesInOrder == [][StageOrderStep]_vars

C22_Witness ==
    /\ st_pc = "done"
    /\ written # <<>>
    /\ rn_pc = "written"
    /\ Len(wavs) = 2
    /\ Len(rn_segments) = 2
    /\ Len(rn_summary) = 2
    /\ st_segments[1].winner # st_segments[2].winner
    /\ outputs = {"features_csv", "segments_csv", "compmap_json"}

---------------------------------------------------------------------------
(* The segmenter's forward walk. *)

ValleysInWindow ==
    { valley_times[i] : i \in 1..Len(valley_times) } \cap
        { t \in 0..dur : /\ t >= last + min_seg_dur
                         /\ t <= last + max_seg_dur
                         /\ t <= dur - min_seg_dur }

WalkStep ==
    /\ sg_pc = "walk" =>
         LET desired == last + target_seg_dur(bpm, min_seg_dur) IN
         /\ boundaries' # boundaries =>
              \E b \in ValleysInWindow :
                 /\ boundaries' = Append(boundaries, b)
                 /\ last' = b
                 /\ \A t \in ValleysInWindow :
                       \/ Abs(b - desired) < Abs(t - desired)
                       \/ Abs(b - desired) = Abs(t - desired) /\ b <= t
         /\ ValleysInWindow = {} =>
              boundaries' = boundaries /\ sg_pc' = "close"
    /\ sg_pc \in {"close", "done"} => boundaries' = boundaries

\* C23: in the forward walk every boundary placed after `last` is a
\* detected valley inside [last + min_seg_dur, min(last + max_seg_dur,
\* duration - min_seg_dur)], the one closest to last + target and the
\* earliest of two equally close ones; when the window holds no valley the
\* walk stops and no boundary is placed any more, whatever valleys lie
\* later in the phrase.
C23_WalkPicksClosestValley == [][WalkStep]_vars

C23_Witness ==
    /\ sg_pc = "done"
    /\ bpm = 0
    /\ dur = 2400
    /\ \E i, j \in 1..Len(valley_times) :
          valley_times[i] = 1000 /\ valley_times[j] = 1400
    /\ Len(boundaries) >= 2
    /\ boundaries[2] = 1000

---------------------------------------------------------------------------
(* Winner and candidates of a comp-map entry. *)

\* The rows of an entry's segment, and those that are not the winner's.
RowsOfEntry(e) == { i \in 1..Len(seg_rows) : seg_rows[i].segment_idx = e.index }
OtherRows(e) == { i \in RowsOfEntry(e) : seg_rows[i].take # e.winner.take }
CandTakes(e) == { c.take : c \in Cands(e) }

\* The winner has the maximum score of its segment; the candidates are
\* n of the other takes of the segment, all within diversity_delta of the
\* winner, in non-increasing order, none scoring lower than a take left out.
WinnerAndFirst(e, n) ==
    /\ \E i \in RowsOfEntry(e) :
          /\ seg_rows[i].take = e.winner.take
          /\ seg_rows[i].final_score = e.winner.final_score
    /\ \A i \in RowsOfEntry(e) : seg_rows[i].final_score <= e.winner.final_score
    /\ Len(e.candidates) = n
    /\ Cardinality(CandTakes(e)) = Len(e.candidates)
    /\ e.winner.take \notin CandTakes(e)
    /\ \A c \in Cands(e) :
          \E i \in NearRows(e) :
             seg_rows[i].take = c.take /\ seg_rows[i].final_score = c.final_score
    /\ \A j \in 1..(Len(e.candidates) - 1) :
          e.candidates[j].final_score >= e.candidates[j + 1].final_score
    /\ \A i \in OtherRows(e) : \A c \in Cands(e) :
          seg_rows[i].take \notin CandTakes(e) =>
              seg_rows[i].final_score <= c.final_score

\* C24 as stated: the candidate list has min(top_k - 1, m) entries, m the
\* number of other takes within diversity_delta of the winner.
C24_CandidatesAreFirstMin ==
    \A e \in Entries :
        WinnerAndFirst(e, Min2(top_k - 1, Cardinality(NearRows(e))))

\* C24: for every segment the winner is a take with the maximum final
\* score among the takes scored on it, and the candidate list is the first
\* max(0, min(top_k - 1, m)) of the other takes in descending score order,
\* m being the number of other takes within diversity_delta of the winner:
\* no take is left out while a lower-scoring one is listed, and the winner
\* is never its own candidate.  A top_k of 0 or less gives no candidate.
C24_CandidatesAreFirstMinFromZero ==
    \A e \in Entries :
        WinnerAndFirst(e, Max2(0, Min2(top_k - 1, Cardinality(NearRows(e)))))

\* Three takes on a segment, two of them within diversity_delta of the
\* winner, top_k = 2: the better of the two is the one candidate.
C24_Witness ==
    /\ cm_pc = "written"
    /\ top_k = 2
    /\ \E e \in Entries :
         /\ Cardinality(RowsOfEntry(e)) = 3
         /\ Cardinality(NearRows(e)) = 2
         /\ Len(e.candidates) = 1
         /\ \E i \in NearRows(e) :
               seg_rows[i].final_score < e.candidates[1].final_score

---------------------------------------------------------------------------
(* The crossfade of one boundary. *)

\* w_next and w_prev at sample i of the window of c, as fractions.
WNext(c, i) ==
    Frac(i - c.start_sample_cf, c.end_sample_cf - c.start_sample_cf - 1)
WPrev(c, i) ==
    Frac(c.end_sample_cf - 1 - i, c.end_sample_cf - c.start_sample_cf - 1)

CrossfadeStep ==
    (st_pc = "fade" /\ cf_log' # cf_log /\ Last(cf_log').applied) =>
        LET c == Last(cf_log')
            y_prev == audio[seg_take(c.b)]
            y_next == audio[seg_take(c.b + 1)]
        IN  /\ c.end_sample_cf - c.start_sample_cf > 1
            /\ \A i \in c.start_sample_cf..(c.end_sample_cf - 1) :
                 LET wn == WNext(c, i)
                     wp == WPrev(c, i)
                 IN  /\ i \in DOMAIN out_wave /\ i \in DOMAIN y_prev
                     /\ i \in DOMAIN y_next
                     /\ wn.d = wp.d /\ wn.n + wp.n = wn.d
                     /\ i = c.start_sample_cf => wn.n = 0
                     /\ i = c.end_sample_cf - 1 => wn.n = wn.d
                     /\ i > c.start_sample_cf =>
                           FracLe(WNext(c, i - 1), wn) /\ WNext(c, i - 1) # wn
                     /\ out_wave'[i].n * wn.d
                           = out_wave'[i].d * (wp.n * y_prev[i] + wn.n * y_next[i])
            /\ \A i \in DOMAIN out_wave :
                 (i < c.start_sample_cf \/ i >= c.end_sample_cf) =>
                     out_wave'[i] = out_wave[i]

---------------------------------------------------------------------------
(* Segments and windows that are empty after the clamps. *)

\* The hard-composite region of segment k is empty.
SkippedSeg(k) == hard_end(k) <= hard_start(k)

\* C26 as stated, for a skipped segment: the rest is processed as if the
\* segment were not in the comp map, so no crossfade joins it to a
\* neighbour and its take reaches the output nowhere.
C26_SkippedIsAsIfAbsent ==
    st_pc \in {"fade", "done"} =>
        \A n \in 1..Len(cf_log) :
            cf_log[n].applied =>
                ~SkippedSeg(cf_log[n].b) /\ ~SkippedSeg(cf_log[n].b + 1)

SkipStep ==
    /\ (st_pc = "hard" /\ st_i <= num_segs) =>
          /\ st_pc' = "hard" /\ st_i' = st_i + 1 /\ st_error' = ""
          /\ SkippedSeg(st_i) => out_wave' = out_wave
          /\ ~SkippedSeg(st_i) =>
                \A i \in hard_start(st_i)..(hard_end(st_i) - 1) :
                    out_wave'[i] = Frac(audio[seg_take(st_i)][i], 1)
    /\ (st_pc = "fade" /\ st_i <= num_segs - 1) =>
          /\ st_pc' = "fade" /\ st_i' = st_i + 1 /\ st_error' = ""
          /\ Len(cf_log') = Len(cf_log) + 1
          /\ Last(cf_log').b = st_i
          /\ ~Last(cf_log').applied => out_wave' = out_wave
          /\ Last(cf_log').applied <=>
                /\ Min2(seg_dur_s(st_i), seg_dur_s(st_i + 1)) > 0
                /\ fade_fraction > 0
                /\ Last(cf_log').end_sample_cf - Last(cf_log').start_sample_cf > 1

\* C26: a segment whose hard-composite region is empty after the clamps,
\* and a boundary whose crossfade window has one sample or none after the
\* clamps, leave the buffer as it was and raise nothing; the loops go on,
\* every later segment with a region is copied and every later boundary is
\* visited.  The skipped segment stays a neighbour of its boundaries.
C26_SkipsAreLocal ==
    /\ [][SkipStep]_vars
    /\ [](st_pc = "done" => Len(cf_log) = num_segs - 1)

C26_Witness ==
    /\ st_pc = "done"
    /\ num_segs = 2
    /\ ~SkippedSeg(1) /\ SkippedSeg(2)
    /\ cf_log[1].computed /\ ~cf_log[1].applied
    /\ st_error = ""
    /\ written # <<>>

---------------------------------------------------------------------------
(* The valleys _find_rms_valleys returns. *)

Kept(i) == \E k \in 1..Len(keep_times) : keep_times[k] = valley_idxs[i].t

\* Detected valleys i and j are linked by detected valleys each closer than
\* min_spacing to the next.
SameCluster(i, j) ==
    \A k \in (IF i < j THEN i ELSE j)..((IF i < j THEN j ELSE i) - 1) :
        valley_idxs[k + 1].t - valley_idxs[k].t < 180

AscendingAndSpaced ==
    /\ Len(keep_rms) = Len(keep_times)
    /\ \A k \in 1..(Len(keep_times) - 1) :
          /\ keep_times[k] < keep_times[k + 1]
          /\ keep_times[k + 1] - keep_times[k] >= 180
    /\ \A k \in 1..Len(keep_times) :
          \E i \in 1..Len(valley_idxs) :
              valley_idxs[i].t = keep_times[k] /\ valley_idxs[i].r = keep_rms[k]

---------------------------------------------------------------------------
(* The flipped copies of the training set. *)

\* The row pair construction builds for the takes of pairs[k] in the
\* opposite order.
OppositeRow(k) ==
    pair_row(pairs[k].phrase, features_df[pairs[k].take_b],
             features_df[pairs[k].take_a], rk_delta)

TiedPair(k) ==
    features_df[pairs[k].take_a].acc_score = features_df[pairs[k].take_b].acc_score

\* C28 as stated: every flipped copy (-x, 1 - y) is the vector and the
\* label that pair construction and row_to_vec give for the same two takes
\* in the order (B, A), pairs with equal accuracy scores included.
C28_FlippedCopyIsOppositePair ==
    (rk_pc = "trained" /\ flipped) =>
        \A k \in 1..Len(pairs) :
            /\ X_train[Len(pairs) + k] = row_to_vec(OppositeRow(k))
            /\ y_train[Len(pairs) + k] = OppositeRow(k).label

\* C28: every flipped copy has the vector row_to_vec gives for the two
\* takes in the order (B, A); its label is the label pair construction
\* gives for (B, A) when the two accuracy scores differ, and is 1 where
\* pair construction gives 0 when they are equal.
C28_FlippedCopyIsOppositeUnlessTied ==
    (rk_pc = "trained" /\ flipped) =>
        /\ Len(X_train) = 2 * Len(pairs) /\ Len(y_train) = 2 * Len(pairs)
        /\ \A k \in 1..Len(pairs) :
              /\ X_train[Len(pairs) + k] = row_to_vec(OppositeRow(k))
              /\ ~TiedPair(k) => y_train[Len(pairs) + k] = OppositeRow(k).label
              /\ TiedPair(k) =>
                    /\ pairs[k].label = 0
                    /\ OppositeRow(k).label = 0
                    /\ y_train[Len(pairs) + k] = 1

C28_Witness ==
    /\ rk_pc = "trained"
    /\ flipped
    /\ \E k \in 1..Len(pairs) : TiedPair(k) /\ y_train[Len(pairs) + k] = 1
    /\ \E k \in 1..Len(pairs) :
          /\ ~TiedPair(k)
          /\ pairs[k].label = 1
          /\ y_train[Len(pairs) + k] = 0

---------------------------------------------------------------------------
(* Termination of the segmenter's walk. *)

WalkProgress ==
    sg_pc = "walk" =>
        \/ sg_pc' = "close" /\ boundaries' = boundaries
        \/ /\ sg_pc' = "walk"
           /\ Len(boundaries') = Len(boundaries) + 1
           /\ SubSeq(boundaries', 1, Len(boundaries)) = boundaries
           /\ Last(boundaries') - Last(boundaries) >= min_seg_dur
           /\ last' = Last(boundaries')

WalkBounded ==
    sg_pc \in {"walk", "close", "done"} =>
        /\ min_seg_dur > 0
        /\ \A k \in 1..(Len(boundaries) - 1) : boundaries[k] < boundaries[k + 1]
        /\ (Len(boundaries) - 1) * min_seg_dur <= dur

\* C29: with min_seg_dur > 0 the boundary-placing loop terminates: every
\* iteration stops the walk or appends a boundary at least min_seg_dur
\* after the previous one, so the boundaries are strictly increasing, at
\* most duration / min_seg_dur of them are placed, and the function returns.
C29_WalkTerminates ==
    /\ [][WalkProgress]_vars
    /\ []WalkBounded
    /\ <>(sg_pc = "done")

C29_Witness ==
    /\ sg_pc = "done"
    /\ min_seg_dur = 100
    /\ Len(boundaries) = 4
    /\ boundaries[1] = 0
    /\ boundaries[4] - boundaries[3] >= min_seg_dur

---------------------------------------------------------------------------
(* Crossfade windows of different boundaries. *)

AppliedWindows == {n \in 1..Len(cf_log) : cf_log[n].applied}

WindowsDisjoint ==
    \A n, m \in AppliedWindows :
        n < m => \/ cf_log[n].end_sample_cf <= cf_log[m].start_sample_cf
                 \/ cf_log[m].end_sample_cf <= cf_log[n].start_sample_cf

WindowInOwnSpan(n) ==
    /\ sample_of_ms(seg_start_s(cf_log[n].b), sr) <= cf_log[n].start_sample_cf
    /\ cf_log[n].end_sample_cf <= sample_of_ms(seg_end_s(cf_log[n].b + 1), sr)

\* C30: for every comp map and every fade_fraction >= 0, the crossfade
\* windows of two different boundaries share no output sample index, and
\* each window lies inside the span of its own two adjacent segments.
C30_WindowsDisjointAndLocal ==
    (st_pc \in {"fade", "done"} /\ fade_fraction >= 0) =>
        /\ WindowsDisjoint
        /\ \A n \in AppliedWindows : WindowInOwnSpan(n)

====
